---------------------------- MODULE Spec2Model ----------------------------
(***************************************************************************)
(* SHIP connection establishment (flexiblepower/ship-python).              *)
(*                                                                         *)
(* The model follows the Python sources: the AsyncTimer, the TrustManager, *)
(* the FinishFirst race, the CSH and CSHP state machines and the two       *)
(* connection drivers.  Time is counted in milliseconds (the unit of the   *)
(* "waiting" field on the wire).  One loop iteration of a layer's run() is *)
(* one action: the scheduler is single-threaded and cooperative, and the   *)
(* only suspension points inside an iteration are the race itself and      *)
(* transport sends.                                                        *)
(***************************************************************************)
EXTENDS Integers, Sequences, FiniteSets, TLC

VARIABLES
    now,        \* the clock (time.time()), in ms
    trust,      \* trust[s]: the TrustManager of side s
    csh,        \* csh[s]: the CSHLayer object of side s and the locals of its run()
    cshp,       \* cshp[s]: the CSHP client/server layer object of side s
    cmi,        \* cmi[s]: the CMI layer of side s
    pin,        \* pin[s]: the PIN layer of side s
    data,       \* data[s]: the data channel of side s (SHIPDataConnection)
    driver,     \* driver[s]: position of the connection driver of side s
    inbox,      \* inbox[s]: frames sent to side s and not yet received by it
    sent,       \* sent[s]: every frame side s has sent, in order
    budget,     \* number of frames the environment (an arbitrary peer) may still inject
    timers,     \* AsyncTimer objects used on their own, and the last call made on one
    race,       \* a FinishFirst object used on its own, its tasks and the outcome of run()
    callers     \* callers[ski]: a coroutine that called wait_to_trust(ski) on trust["A"]

vars == <<now, trust, csh, cshp, cmi, pin, data, driver, inbox, sent, budget, timers, race, callers>>

-----------------------------------------------------------------------------
(* Bounds of the model.                                                    *)

MaxTime == 120000
TickStep == 60000
MaxPeerFrames == 2

Sides == {"A", "B"}
Peer(s) == IF s = "A" THEN "B" ELSE "A"

\* Python's None in an optional numeric field (timedelta, float): a value
\* below every time and duration the bounded model can produce
NoneT == (-1) - 1000 * MaxTime

-----------------------------------------------------------------------------
(* JSON values and frames.  A frame is a tag octet and a body; the body is *)
(* either not JSON at all or an object with one top-level key whose value  *)
(* is a list of items, each item a dictionary given as its list of         *)
(* key/value pairs.                                                        *)

JStr(x) == [t |-> "str", s |-> x, n |-> 0, m |-> 0, l |-> <<>>]
JInt(x) == [t |-> "int", s |-> "", n |-> x, m |-> 0, l |-> <<>>]
JBool(b) == [t |-> "bool", s |-> "", n |-> IF b THEN 1 ELSE 0, m |-> 0, l |-> <<>>]
JNull == [t |-> "null", s |-> "", n |-> 0, m |-> 0, l |-> <<>>]
\* {"major": x, "minor": y}
JVersion(x, y) == [t |-> "version", s |-> "", n |-> x, m |-> y, l |-> <<>>]
\* [{"format": [f1, f2, ...]}]
JFormats(fs) == [t |-> "formats", s |-> "", n |-> 0, m |-> 0, l |-> fs]

Pair(key, value) == [k |-> key, v |-> value]
Item(key, value) == <<Pair(key, value)>>

Json(top, items) == [json |-> TRUE, top |-> top, items |-> items]
\* JSON texts that are no object: a list (of objects) and a number
JsonList == [json |-> TRUE, top |-> "#list", items |-> <<>>]
JsonNumber == [json |-> TRUE, top |-> "#number", items |-> <<>>]
NotJson == [json |-> FALSE, top |-> "", items |-> <<>>]

\* the empty frame has no tag octet
EmptyFrame == [tag |-> NoneT, body |-> NotJson]
Frame(tag, body) == [tag |-> tag, body |-> body]

\* a frame that is no tagged JSON frame: its first octet is the tag, its
\* second octet (if any) is kept in the body's top key
Octets(second) == [json |-> FALSE, top |-> second, items |-> <<>>]

-----------------------------------------------------------------------------
(* timer.py: AsyncTimer.  status "new": never started; "running": the      *)
(* sleep task is pending; "cancelled": the task was cancelled before it    *)
(* set the event; "completed": the event is set.  at is _at (NoneT before  *)
(* start).                                                                 *)

AsyncTimer == [status |-> "new", at |-> NoneT]

\* started and still pending
has_started_and_pending(t) == t.status = "running"

has_started(t) == t.at # NoneT

has_completed(t) == t.status = "completed"

\* start() raises RuntimeError on a started timer and AttributeError on a
\* duration of None (after.total_seconds()).
StartError(t, after) ==
    IF has_started(t) THEN "RuntimeError:Timer was already started"
    ELSE IF after = NoneT THEN "AttributeError:NoneType duration"
    ELSE "none"

start(t, after) == [status |-> "running", at |-> now + after]

\* a cancel() that leaves the task alone
cancel_nothing(t) == t

cancel(t) == IF t.status = "running" THEN [t EXCEPT !.status = "cancelled"] ELSE t

time_left(t) == IF t.at # NoneT THEN t.at - now ELSE NoneT

\* time_left() returns None or a float; None is the only value that is
\* "is None"
time_left_is_None(t) == t.at = NoneT

\* a postpone() that asks only whether the timer was started
PostponeError_unless_started(t) ==
    IF ~time_left_is_None(t) THEN "none"
    ELSE "RuntimeError:The timer was not yet active"

PostponeError(t) ==
    IF ~time_left_is_None(t) /\ time_left(t) > 0 THEN "none"
    ELSE "RuntimeError:The timer was not yet active"

\* a postpone() that forgets the time that was left
postpone_from_now(t, duration) == start(AsyncTimer, duration)

\* the new timer of postpone(); the old one is cancelled by the caller's
\* rebinding (it is no longer referenced)
postpone(t, duration) == start(AsyncTimer, duration + time_left(t))

\* a timer whose wait_until_completed() resolves
Expired(t) == t.status = "running" /\ t.at <= now

\* the timer objects used on their own: the one at hand and the one a
\* postpone() of it creates
TimerIds == {"first", "second"}

OtherTimer(id) == IF id = "first" THEN "second" ELSE "first"

\* no call was made yet: n counts the calls, name / id / arg / exc describe
\* the last one (exc "none": it returned)
NoCall == [n |-> 0, name |-> "none", id |-> "first", arg |-> 0, exc |-> "none"]

NoTimers == [pool |-> [id \in TimerIds |-> AsyncTimer], op |-> NoCall]

-----------------------------------------------------------------------------
(* finish_first.py: FinishFirst.  names is coroutines_by_name in the order *)
(* of the dictionary.  A task is "absent" (not created), "pending",        *)
(* "result" (finished, returning value), "exception" (finished by raising, *)
(* which includes a task cancelled from outside) or "cancelled" (by run).  *)
(* result is the returned dictionary as a set of <<name, value>>.          *)

RaceNames == {"recv", "timer", "trust"}

NoTask == [status |-> "absent", value |-> "none"]

NoRace == [names |-> <<>>, tasks |-> [name \in RaceNames |-> NoTask],
           pc |-> "none", result |-> {}, exc |-> "none"]

\* lines 30-32: one task per coroutine
create_tasks(r) ==
    [r EXCEPT !.tasks = [name \in RaceNames |->
                           IF \E i \in 1..Len(r.names) : r.names[i] = name
                           THEN [status |-> "pending", value |-> "none"]
                           ELSE NoTask]]

\* the done set of asyncio.wait
done(r) == {name \in RaceNames : r.tasks[name].status \in {"result", "exception"}}

\* lines 38-43: the loop over tasks_by_name; task.result() re-raises the
\* exception of a finished task and ends the loop there
RECURSIVE collect_or_cancel(_, _)
collect_or_cancel(r, names) ==
    IF names = <<>> THEN [r EXCEPT !.pc = "returned"]
    ELSE LET task_name == Head(names)
             task == r.tasks[task_name]
         IN  IF task_name \in done(r)
             THEN IF task.status = "exception"
                  THEN [r EXCEPT !.pc = "raised", !.exc = task.value, !.result = {}]
                  ELSE collect_or_cancel(
                           [r EXCEPT !.result = @ \cup {<<task_name, task.value>>}],
                           Tail(names))
             ELSE collect_or_cancel([r EXCEPT !.tasks[task_name].status = "cancelled"],
                                    Tail(names))

\* asyncio.wait refuses an empty set of tasks
WaitError(r) ==
    IF r.names = <<>> THEN "ValueError:Set of Tasks/Futures is empty" ELSE "none"

\* no entry of callers is in use
NoCallers == [k \in {"remote", "other"} |-> "none"]

-----------------------------------------------------------------------------
(* trust_manager.py: TrustManager, for the SKIs it may be asked about.     *)
(* event: "absent" (no entry in trust_by_ski), "clear", "set".             *)
(* task: a listener task is pending (_trust_tasks).  calls: number of      *)
(* times the trust listener was invoked.                                   *)

SKIs == {"remote", "other"}

TrustManager ==
    [k \in SKIs |-> [event |-> "absent", task |-> FALSE, calls |-> 0]]

\* mutant: the listener is asked again whenever no listener task is pending
_get_trust_event_asks_again(tm, ski) ==
    IF ~tm[ski].task
    THEN [tm EXCEPT ![ski] = [event |-> IF tm[ski].event = "absent" THEN "clear"
                                        ELSE tm[ski].event,
                              task |-> TRUE, calls |-> tm[ski].calls + 1]]
    ELSE IF tm[ski].event = "absent" THEN [tm EXCEPT ![ski].event = "clear"] ELSE tm

_get_trust_event(tm, ski) ==
    IF tm[ski].event # "absent" THEN tm
    ELSE IF ~tm[ski].task
         THEN [tm EXCEPT ![ski] = [event |-> "clear", task |-> TRUE,
                                    calls |-> tm[ski].calls + 1]]
         ELSE [tm EXCEPT ![ski].event = "clear"]

\* mutant: an SKI the manager has an event for counts as trusted
is_trusted_when_known(tm, ski) == _get_trust_event(tm, ski)[ski].event # "absent"

is_trusted(tm, ski) == _get_trust_event(tm, ski)[ski].event = "set"

\* mutant: one grant trusts every SKI the manager knows
trust_remote_everyone(tm, ski) ==
    [k \in DOMAIN tm |->
        IF _get_trust_event(tm, ski)[k].event = "absent" THEN _get_trust_event(tm, ski)[k]
        ELSE [_get_trust_event(tm, ski)[k] EXCEPT !.event = "set"]]

trust_remote(tm, ski) == [_get_trust_event(tm, ski) EXCEPT ![ski].event = "set"]

_trust_task_done(tm, ski) == [tm EXCEPT ![ski].task = FALSE]

\* wait_to_trust() resolves once the event is set
wait_to_trust_done(tm, ski) == _get_trust_event(tm, ski)[ski].event = "set"

-----------------------------------------------------------------------------
(* csh_layer.py: CSHStates, CSHPhases, CSHMessage.                         *)

CSHStates == {"READY_INIT", "READY_LISTEN", "READY_TIMEOUT", "PENDING_INIT",
              "PENDING_LISTEN", "PENDING_TIMEOUT", "HELLO_OK"}

is_pending(st) == st \in {"PENDING_TIMEOUT", "PENDING_LISTEN", "PENDING_INIT"}

is_ready(st) == st \in {"READY_TIMEOUT", "READY_LISTEN", "READY_INIT", "HELLO_OK"}

CSHPhases == {"pending", "ready", "aborted"}

\* waiting: ms or NoneT; prolongation_request: "None", "True" or "False"
CSHMessage(phase, waiting, prolongation_request) ==
    [phase |-> phase, waiting |-> waiting, prolongation_request |-> prolongation_request]

NoMessage == CSHMessage("None", NoneT, "None")

\* mutant: a field is written when it is truthy, not when it is not None
CSHMessage_to_json_truthy(msg) ==
    Json("connectionHello",
         <<Item("phase", JStr(msg.phase))>>
         \o (IF msg.waiting # NoneT /\ msg.waiting # 0
             THEN <<Item("waiting", JInt(msg.waiting))>> ELSE <<>>)
         \o (IF msg.prolongation_request = "True"
             THEN <<Item("prolongationRequest", JBool(TRUE))>>
             ELSE <<>>))

\* CSHMessage.to_json: phase, then waiting in ms, then prolongationRequest
CSHMessage_to_json(msg) ==
    Json("connectionHello",
         <<Item("phase", JStr(msg.phase))>>
         \o (IF msg.waiting # NoneT THEN <<Item("waiting", JInt(msg.waiting))>> ELSE <<>>)
         \o (IF msg.prolongation_request # "None"
             THEN <<Item("prolongationRequest", JBool(msg.prolongation_request = "True"))>>
             ELSE <<>>))

\* the Python value a JSON value of the prolongationRequest key is kept as,
\* up to what the layer tests (is None, truthiness)
PyOptBool(v) ==
    IF v.t = "null" THEN "None"
    ELSE IF v.t = "bool" \/ v.t = "int" THEN (IF v.n # 0 THEN "True" ELSE "False")
    ELSE IF v.t = "str" THEN (IF v.s # "" THEN "True" ELSE "False")
    ELSE "True"

\* One step of the loop of CSHMessage.from_json: acc is
\* [exc, phase, waiting, prolongation_request]
CSH_from_json_item(acc, item) ==
    IF acc.exc # "none" THEN acc
    ELSE IF Len(item) # 1 THEN [acc EXCEPT !.exc = "Abort"]
    ELSE LET key == item[1].k
             value == item[1].v
         IN  IF key = "phase"
             THEN IF value.t = "str" /\ value.s \in CSHPhases
                  THEN [acc EXCEPT !.phase = value.s]
                  ELSE [acc EXCEPT !.exc = "Abort"]
             ELSE IF key = "waiting"
             THEN IF value.t \in {"int", "bool"} THEN [acc EXCEPT !.waiting = value.n]
                  ELSE IF value.t = "str" THEN [acc EXCEPT !.exc = "Abort"]
                  ELSE [acc EXCEPT !.exc = "TypeError"]
             ELSE IF key = "prolongationRequest"
             THEN [acc EXCEPT !.prolongation_request = PyOptBool(value)]
             ELSE [acc EXCEPT !.exc = "Abort"]

RECURSIVE CSH_from_json_loop(_, _)
CSH_from_json_loop(acc, items) ==
    IF items = <<>> THEN acc
    ELSE CSH_from_json_loop(CSH_from_json_item(acc, Head(items)), Tail(items))

\* CSHMessage.from_json: [exc |-> "none", msg |-> the message] or the exception
CSHMessage_from_json(body) ==
    LET acc0 == [exc |-> "none", phase |-> "None", waiting |-> NoneT,
                 prolongation_request |-> "None"]
        acc == CSH_from_json_loop(acc0, body.items)
    IN  IF body.top \in {"#list", "#number"} THEN [exc |-> "TypeError", msg |-> NoMessage]
        ELSE IF body.top # "connectionHello" THEN [exc |-> "Abort", msg |-> NoMessage]
        ELSE IF acc.exc # "none" THEN [exc |-> acc.exc, msg |-> NoMessage]
        ELSE IF acc.phase = "None" THEN [exc |-> "Abort", msg |-> NoMessage]
        ELSE [exc |-> "none",
              msg |-> CSHMessage(acc.phase, acc.waiting, acc.prolongation_request)]

\* CSHLayer.receive_csh_message on a received frame
receive_csh_message(frame) ==
    IF frame.tag = NoneT THEN [exc |-> "Abort", msg |-> NoMessage]
    ELSE IF frame.tag # 1 THEN [exc |-> "Abort", msg |-> NoMessage]
    ELSE IF ~frame.body.json THEN [exc |-> "Abort", msg |-> NoMessage]
    ELSE CSHMessage_from_json(frame.body)

\* CSHLayer.send_csh_message: the frame put on the transport
send_csh_message(msg) == Frame(1, CSHMessage_to_json(msg))

-----------------------------------------------------------------------------
(* csh_layer.py: CSHLayer.  A layer object is the record                   *)
(*   pc        "none" before construction, "running" inside run(),        *)
(*             "returned" after a normal return, else the exception that   *)
(*             ended run()                                                 *)
(*   the attributes of the object, under their names in the source         *)
(*   abort, previous_state, state_at_start, result, message                *)
(*             locals of run() and decide_next_input()                     *)
(*   orphan    a send_prolongation timer was dropped by the layer while    *)
(*             its task was still pending                                  *)

CSH_TIMEOUT_T_HELLO_INIT == 120000
CSH_TIMEOUT_T_HELLO_INC == CSH_TIMEOUT_T_HELLO_INIT
CSH_TIMEOUT_T_HELLO_PROLONG_THR_INC == 30000
CSH_TIMEOUT_T_HELLO_PROLONG_WAITTING_GAP == 15000
CSH_TIMEOUT_T_HELLO_PROLONG_MIN == 1000

NoCSHLayer ==
    [pc |-> "none", current_state |-> "PENDING_INIT",
     wait_for_ready_timer |-> AsyncTimer,
     send_prolongation_timer |-> AsyncTimer,
     prolongation_request_reply_timer |-> AsyncTimer,
     previously_received_message |-> NoMessage,
     other_side_trusts_us |-> FALSE,
     abort |-> FALSE, previous_state |-> "PENDING_INIT",
     state_at_start |-> "PENDING_INIT", result |-> {}, message |-> NoMessage,
     orphan |-> FALSE]

\* CSHLayer.__init__ with the two initial states exchanged
CSHLayer_init_exchanged(tm, remote_ski) ==
    LET st == IF is_trusted(tm, remote_ski) THEN "PENDING_INIT" ELSE "READY_INIT"
    IN  [NoCSHLayer EXCEPT !.pc = "running", !.current_state = st,
                           !.previous_state = st, !.state_at_start = st]

\* CSHLayer.__init__ followed by the first lines of run()
CSHLayer_init(tm, remote_ski) ==
    LET st == IF is_trusted(tm, remote_ski) THEN "READY_INIT" ELSE "PENDING_INIT"
    IN  [NoCSHLayer EXCEPT !.pc = "running", !.current_state = st,
                           !.previous_state = st, !.state_at_start = st]

\* The effect of a piece of run() is computed on a context: the layer object
\* L, the frames sent so far in this step (out) and the exception raised
\* (exc, "none" while there is none).  Code after a raise is skipped.
Ctx(L) == [L |-> L, out |-> <<>>, exc |-> "none"]

Truthy(waiting) == waiting # NoneT /\ waiting # 0

csh_send(c, msg) == [c EXCEPT !.out = Append(@, send_csh_message(msg))]

\* mutant: the Hello never reports the time left on wait_for_ready
send_sme_hello_update_message_without_waiting(c) ==
    IF c.exc # "none" THEN c
    ELSE csh_send(c, CSHMessage(IF is_ready(c.L.current_state) THEN "ready" ELSE "pending",
                                NoneT, "None"))

send_sme_hello_update_message(c) ==
    IF c.exc # "none" THEN c
    ELSE LET phase == IF is_ready(c.L.current_state) THEN "ready" ELSE "pending"
             wait_for_ready_left == time_left(c.L.wait_for_ready_timer)
             waiting == IF ~has_completed(c.L.wait_for_ready_timer)
                           /\ ~time_left_is_None(c.L.wait_for_ready_timer)
                        THEN wait_for_ready_left ELSE NoneT
         IN  csh_send(c, CSHMessage(phase, waiting, "None"))

\* mutant: a prolongation is granted only to a timer that was never prolonged
decide_incoming_prolongation_request_once(c) ==
    IF c.exc # "none" THEN c
    ELSE IF PostponeError(c.L.wait_for_ready_timer) # "none"
    THEN [c EXCEPT !.exc = PostponeError(c.L.wait_for_ready_timer)]
    ELSE IF c.L.wait_for_ready_timer.at > CSH_TIMEOUT_T_HELLO_INIT + CSH_TIMEOUT_T_HELLO_INC
    THEN c
    ELSE [c EXCEPT !.L.wait_for_ready_timer = postpone(@, CSH_TIMEOUT_T_HELLO_INC)]

decide_incoming_prolongation_request(c) ==
    IF c.exc # "none" THEN c
    ELSE IF PostponeError(c.L.wait_for_ready_timer) # "none"
    THEN [c EXCEPT !.exc = PostponeError(c.L.wait_for_ready_timer)]
    ELSE [c EXCEPT !.L.wait_for_ready_timer = postpone(@, CSH_TIMEOUT_T_HELLO_INC)]

\* finish_first.py, FinishFirst.run as used by CSHLayer.decide_next_input:
\* the names of the awaitables that are done when the race returns.  Every
\* timer whose event is set and a trust event that is set are done as soon
\* as their tasks run; the recv task is done when a frame has arrived
\* (frame_arrived).  receive_trust is raced only while the state is pending.
CSHFinishFirst(L, tm, frame_arrived) ==
    (IF frame_arrived THEN {"csh_message"} ELSE {})
    \cup (IF has_completed(L.wait_for_ready_timer) THEN {"wait_for_ready_timer"} ELSE {})
    \cup (IF has_completed(L.send_prolongation_timer)
          THEN {"send_prolongation_timer"} ELSE {})
    \cup (IF has_completed(L.prolongation_request_reply_timer)
          THEN {"prolongation_request_reply_timer"} ELSE {})
    \cup (IF is_pending(L.current_state) /\ wait_to_trust_done(tm, "remote")
          THEN {"receive_trust"} ELSE {})

\* mutant: the grant leaves prolongation_reply alone and never goes to HELLO_OK
receive_trust_branch_to_ready_listen(c) ==
    send_sme_hello_update_message(
        [c EXCEPT !.L.send_prolongation_timer = cancel(@),
                  !.L.current_state = "READY_LISTEN"])

\* the branch of decide_next_input taken when receive_trust is dispatched
receive_trust_branch(c) ==
    LET c1 == [c EXCEPT
                 !.L.send_prolongation_timer = cancel(@),
                 !.L.prolongation_request_reply_timer = cancel(@),
                 !.L.current_state =
                     IF c.L.other_side_trusts_us THEN "HELLO_OK" ELSE "READY_LISTEN"]
    IN  send_sme_hello_update_message(c1)

\* the timer and trust dispatch of decide_next_input (the if / elif chain)
dispatch_result(c, result) ==
    IF "wait_for_ready_timer" \in result
    THEN [c EXCEPT !.L.current_state =
                      IF is_ready(c.L.current_state) THEN "READY_TIMEOUT"
                      ELSE "PENDING_TIMEOUT"]
    ELSE IF "send_prolongation_timer" \in result
            \/ "prolongation_request_reply_timer" \in result
    THEN IF is_ready(c.L.current_state)
         THEN [c EXCEPT !.exc = "RuntimeError:State should not be ready"]
         ELSE [c EXCEPT !.L.current_state = "PENDING_TIMEOUT"]
    ELSE IF "receive_trust" \in result
    THEN receive_trust_branch(c)
    ELSE c

\* mutant: a ready Hello is kept but not remembered as the peer's trust
store_message_forgets_ready(c, result, msg) ==
    IF c.exc # "none" THEN c
    ELSE IF "csh_message" \in result
    THEN [c EXCEPT !.L.message = msg, !.L.previously_received_message = msg]
    ELSE [c EXCEPT !.L.message = NoMessage]

\* the last lines of decide_next_input: keep the received message
store_message(c, result, msg) ==
    IF c.exc # "none" THEN c
    ELSE IF "csh_message" \in result
    THEN [c EXCEPT !.L.message = msg,
                   !.L.previously_received_message = msg,
                   !.L.other_side_trusts_us = (@ \/ msg.phase = "ready")]
    ELSE [c EXCEPT !.L.message = NoMessage]

\* decide_next_input: result is what the race returned, parsed is what
\* receive_csh_message made of the received frame (when there is one); an
\* exception of the recv task is raised by FinishFirst.run itself
decide_next_input(c, result, parsed) ==
    LET c0 == [c EXCEPT !.L.result = result]
    IN  IF "csh_message" \in result /\ parsed.exc # "none"
        THEN [c0 EXCEPT !.exc = parsed.exc]
        ELSE store_message(dispatch_result(c0, result), result, parsed.msg)

\* run(), state READY_INIT and PENDING_INIT
csh_init_state(c, next_state) ==
    LET err == StartError(c.L.wait_for_ready_timer, CSH_TIMEOUT_T_HELLO_INIT)
        c1 == [c EXCEPT
                 !.L.wait_for_ready_timer = start(@, CSH_TIMEOUT_T_HELLO_INIT),
                 !.L.send_prolongation_timer = cancel(@),
                 !.L.prolongation_request_reply_timer = cancel(@)]
        c2 == send_sme_hello_update_message(c1)
    IN  IF err # "none" THEN [c EXCEPT !.exc = err]
        ELSE [c2 EXCEPT !.L.current_state = next_state]

\* run(), state READY_LISTEN, after decide_next_input returned
csh_ready_listen(c) ==
    LET message == c.L.message
    IN  IF c.exc # "none" \/ message = NoMessage THEN c
        ELSE IF message.phase = "ready"
        THEN [c EXCEPT !.L.current_state = "HELLO_OK"]
        ELSE IF message.phase = "pending"
        THEN IF message.prolongation_request = "True"
             THEN send_sme_hello_update_message(decide_incoming_prolongation_request(c))
             ELSE c
        ELSE [c EXCEPT !.L.abort = TRUE]

\* run(), state PENDING_LISTEN: the peer accepted our pending state
csh_prolongation_accepted(c) ==
    LET message == c.L.message
        c1 == [c EXCEPT !.L.prolongation_request_reply_timer = AsyncTimer]
        c2 == IF message.phase = "ready" /\ Truthy(message.waiting)
              THEN [c1 EXCEPT !.L.wait_for_ready_timer = cancel(@)]
              ELSE c1
        new_send_prolongation_request_timer_duration ==
            message.waiting - CSH_TIMEOUT_T_HELLO_PROLONG_WAITTING_GAP
        c3 == [c2 EXCEPT !.L.send_prolongation_timer = cancel(@)]
    IN  IF message.waiting >= CSH_TIMEOUT_T_HELLO_PROLONG_THR_INC
        THEN IF new_send_prolongation_request_timer_duration
                  >= CSH_TIMEOUT_T_HELLO_PROLONG_MIN
             THEN [c3 EXCEPT
                     !.L.orphan = @ \/ c3.L.send_prolongation_timer.status = "running",
                     !.L.send_prolongation_timer =
                         start(AsyncTimer, new_send_prolongation_request_timer_duration)]
             ELSE c3
        ELSE c3

\* run(), state PENDING_LISTEN, after decide_next_input returned
csh_pending_listen(c) ==
    LET message == c.L.message
    IN  IF c.exc # "none" \/ message = NoMessage THEN c
        ELSE IF message.phase = "ready" /\ message.waiting = NoneT
        THEN [c EXCEPT !.L.abort = TRUE]
        ELSE IF (message.phase = "ready" /\ Truthy(message.waiting))
                \/ (message.phase = "pending" /\ Truthy(message.waiting)
                    /\ message.prolongation_request = "None")
        THEN csh_prolongation_accepted(c)
        ELSE IF message.phase = "pending" /\ message.waiting = NoneT
                /\ message.prolongation_request = "True"
        THEN send_sme_hello_update_message(decide_incoming_prolongation_request(c))
        ELSE [c EXCEPT !.L.abort = TRUE]

\* run(), state PENDING_TIMEOUT, branch "send_prolongation_timer has expired"
csh_request_prolongation(c) ==
    LET c1 == csh_send(c, CSHMessage("pending", NoneT, "True"))
        timer_duration ==
            IF c.L.previously_received_message # NoMessage
            THEN c.L.previously_received_message.waiting
            ELSE IF time_left_is_None(c.L.wait_for_ready_timer) THEN NoneT
            ELSE (11 * time_left(c.L.wait_for_ready_timer)) \div 10
        err == StartError(c.L.prolongation_request_reply_timer, timer_duration)
    IN  IF err # "none" THEN [c1 EXCEPT !.exc = err]
        ELSE [c1 EXCEPT
                !.L.prolongation_request_reply_timer = start(@, timer_duration),
                !.L.orphan = @ \/ c.L.send_prolongation_timer.status = "running",
                !.L.send_prolongation_timer = AsyncTimer,
                !.L.current_state = c.L.previous_state]

\* run(), state PENDING_TIMEOUT
csh_pending_timeout(c) ==
    IF has_completed(c.L.wait_for_ready_timer) THEN [c EXCEPT !.L.abort = TRUE]
    ELSE IF has_completed(c.L.send_prolongation_timer) THEN csh_request_prolongation(c)
    ELSE IF has_completed(c.L.prolongation_request_reply_timer)
    THEN [c EXCEPT !.L.abort = TRUE]
    ELSE c

\* the code after the loop of run(): cancel the timers, and on abort send
\* Hello{aborted} and raise
csh_after_loop(c) ==
    LET c1 == [c EXCEPT
                 !.L.wait_for_ready_timer = cancel(@),
                 !.L.send_prolongation_timer = cancel(@),
                 !.L.prolongation_request_reply_timer = cancel(@)]
    IN  IF c.L.abort
        THEN [csh_send(c1, CSHMessage("aborted", NoneT, "None")) EXCEPT !.exc = "Abort"]
        ELSE [c1 EXCEPT !.L.pc = "returned"]

\* One iteration of the loop of run(), and the code after the loop when the
\* loop condition fails afterwards.  result and parsed are the outcome of
\* the race of decide_next_input (used in the two listen states only).
csh_iteration(L, result, parsed) ==
    LET c0 == Ctx([L EXCEPT !.state_at_start = L.current_state])
        st == L.current_state
        c1 == IF st = "READY_INIT" THEN csh_init_state(c0, "READY_LISTEN")
              ELSE IF st = "READY_LISTEN"
              THEN csh_ready_listen(decide_next_input(c0, result, parsed))
              ELSE IF st = "READY_TIMEOUT" THEN [c0 EXCEPT !.L.abort = TRUE]
              ELSE IF st = "PENDING_INIT" THEN csh_init_state(c0, "PENDING_LISTEN")
              ELSE IF st = "PENDING_LISTEN"
              THEN csh_pending_listen(decide_next_input(c0, result, parsed))
              ELSE IF st = "PENDING_TIMEOUT" THEN csh_pending_timeout(c0)
              ELSE [c0 EXCEPT !.exc = "RuntimeError:This should not happen"]
        c2 == IF c1.exc # "none" THEN c1
              ELSE [c1 EXCEPT !.L.previous_state = c1.L.state_at_start]
        c3 == IF c2.exc = "none" /\ (c2.L.abort \/ c2.L.current_state = "HELLO_OK")
              THEN csh_after_loop(c2) ELSE c2
    IN  IF c3.exc # "none" THEN [c3 EXCEPT !.L.pc = c3.exc] ELSE c3

-----------------------------------------------------------------------------
(* Actions of the CSH layer of side s.                                     *)

CSHTimerNames == {"wait_for_ready_timer", "send_prolongation_timer",
                  "prolongation_request_reply_timer"}

CSHListenStates == {"READY_LISTEN", "PENDING_LISTEN"}

NothingParsed == [exc |-> "none", msg |-> NoMessage]

\* the frames of step c go to the peer, in order
Transmit(s, out, consumed) ==
    /\ sent' = [sent EXCEPT ![s] = @ \o out]
    /\ inbox' = [inbox EXCEPT ![s] = IF consumed THEN Tail(@) ELSE @,
                              ![Peer(s)] = @ \o out]

\* shipproto.py / example_client.py: CSHLayer(websocket, trust_manager, ski)
CSHConstruct(s) ==
    /\ driver[s].pc = "CSH"
    /\ csh[s].pc = "none"
    /\ csh' = [csh EXCEPT ![s] = CSHLayer_init(trust[s], "remote")]
    /\ trust' = [trust EXCEPT ![s] = _get_trust_event(@, "remote")]
    /\ UNCHANGED <<now, cshp, cmi, pin, data, driver, inbox, sent, budget, timers, race, callers>>

\* one iteration of CSHLayer.run; in a listen state the iteration starts
\* when the race of decide_next_input returns, with or without a frame
CSHRun(s) ==
    /\ driver[s].pc = "CSH"
    /\ csh[s].pc = "running"
    /\ \E take \in BOOLEAN :
         LET L == csh[s]
             listening == L.current_state \in CSHListenStates
         IN  /\ take => (listening /\ inbox[s] # <<>>)
             /\ \E result \in {IF listening THEN CSHFinishFirst(L, trust[s], take)
                                ELSE {}} :
                \E parsed \in {IF take THEN receive_csh_message(Head(inbox[s]))
                                ELSE NothingParsed} :
                \E c \in {csh_iteration(L, result, parsed)} :
                  /\ listening => result # {}
                  /\ csh' = [csh EXCEPT ![s] = c.L]
                  /\ Transmit(s, c.out, take)
    /\ UNCHANGED <<now, trust, cshp, cmi, pin, data, driver, budget, timers, race, callers>>

\* run() in PENDING_TIMEOUT with none of the three timers completed: the
\* iteration takes no branch and awaits nothing that suspends, so the loop
\* spins and no other task of the event loop of s runs
CSHSpinning(s) ==
    /\ csh[s].pc = "running"
    /\ csh[s].current_state = "PENDING_TIMEOUT"
    /\ \A name \in CSHTimerNames : ~has_completed(csh[s][name])

\* timer.py, AsyncTimer._run_task: the sleep is over and the event is set
CSHTimerFire(s) ==
    /\ csh[s].pc = "running"
    /\ ~CSHSpinning(s)
    /\ \E name \in CSHTimerNames :
         /\ Expired(csh[s][name])
         /\ csh' = [csh EXCEPT ![s][name].status = "completed"]
    /\ UNCHANGED <<now, trust, cshp, cmi, pin, data, driver, inbox, sent, budget, timers, race, callers>>

\* the trust listener task of side s resolves the grant: trust_remote(ski),
\* then _trust_task_done
TrustGrant(s) ==
    /\ ~CSHSpinning(s)
    /\ trust[s]["remote"].task
    /\ trust[s]["remote"].event = "clear"
    /\ trust' = [trust EXCEPT ![s] = _trust_task_done(trust_remote(@, "remote"), "remote")]
    /\ UNCHANGED <<now, csh, cshp, cmi, pin, data, driver, inbox, sent, budget, timers, race, callers>>

\* side s has something to do at the present instant
CSHBusy(s) ==
    /\ csh[s].pc = "running"
    /\ \/ csh[s].current_state \notin CSHListenStates
       \/ CSHFinishFirst(csh[s], trust[s], FALSE) # {}
       \/ \E name \in CSHTimerNames : Expired(csh[s][name])

CSHDeadlines(s) ==
    IF csh[s].pc = "running"
    THEN {csh[s][name].at : name \in {n \in CSHTimerNames : csh[s][n].status = "running"}}
    ELSE {}

SetMin(S) == CHOOSE x \in S : \A y \in S : x <= y

-----------------------------------------------------------------------------
(* connection_layers/cshp_layer.py: the CSHP messages.  A parsed message   *)
(* is a record with kind "handshake" (CSHPProtocolHandshakeMessage),       *)
(* "error" (CSHPProtocolHandshakeErrorMessage) or "None".                  *)

CSHPProtocolHandshakeType == {"announceMax", "SELECT"}
SHIPFormats == {"JSON-UTF8", "JSON-UTF16"}

CSHPProtocolHandshakeMessage(handshake_type, version_major, version_minor, formats) ==
    [kind |-> "handshake", handshake_type |-> handshake_type,
     version_major |-> version_major, version_minor |-> version_minor,
     formats |-> formats, error |-> NoneT]

CSHPProtocolHandshakeErrorMessage(error) ==
    [kind |-> "error", handshake_type |-> "None", version_major |-> NoneT,
     version_minor |-> NoneT, formats |-> <<>>, error |-> error]

NoCSHPMessage ==
    [kind |-> "None", handshake_type |-> "None", version_major |-> NoneT,
     version_minor |-> NoneT, formats |-> <<>>, error |-> NoneT]

CSHPMessage_to_json(msg) ==
    IF msg.kind = "handshake"
    THEN Json("messageProtocolHandshake",
              <<Item("handshakeType", JStr(msg.handshake_type)),
                Item("version", JVersion(msg.version_major, msg.version_minor)),
                Item("formats", JFormats(msg.formats))>>)
    ELSE Json("messageProtocolHandshakeError", <<Item("error", JInt(msg.error))>>)

\* one step of the loop of CSHPProtocolHandshakeMessage.from_json; acc is
\* [exc, handshake_type, version_major, version_minor, formats, has_formats]
CSHP_from_json_item(acc, item) ==
    IF acc.exc # "none" THEN acc
    ELSE IF Len(item) # 1 THEN [acc EXCEPT !.exc = "Abort"]
    ELSE LET key == item[1].k
             value == item[1].v
         IN  IF key = "handshakeType"
             THEN IF value.t = "str" /\ value.s \in CSHPProtocolHandshakeType
                  THEN [acc EXCEPT !.handshake_type = value.s]
                  ELSE [acc EXCEPT !.exc = "Abort"]
             ELSE IF key = "version"
             THEN IF value.t = "version"
                  THEN [acc EXCEPT !.version_major = value.n, !.version_minor = value.m]
                  ELSE [acc EXCEPT !.exc = "TypeError"]
             ELSE IF key = "formats"
             THEN IF value.t = "formats"
                  THEN IF \A i \in 1..Len(value.l) : value.l[i] \in SHIPFormats
                       THEN [acc EXCEPT !.formats = value.l, !.has_formats = TRUE]
                       ELSE [acc EXCEPT !.exc = "Abort"]
                  ELSE [acc EXCEPT !.exc = "TypeError"]
             ELSE [acc EXCEPT !.exc = "Abort"]

RECURSIVE CSHP_from_json_loop(_, _)
CSHP_from_json_loop(acc, items) ==
    IF items = <<>> THEN acc
    ELSE CSHP_from_json_loop(CSHP_from_json_item(acc, Head(items)), Tail(items))

CSHPFailed(exc) == [exc |-> exc, msg |-> NoCSHPMessage]

CSHPProtocolHandshakeMessage_from_json(body) ==
    LET acc0 == [exc |-> "none", handshake_type |-> "None", version_major |-> NoneT,
                 version_minor |-> NoneT, formats |-> <<>>, has_formats |-> FALSE]
        acc == CSHP_from_json_loop(acc0, body.items)
    IN  IF acc.exc # "none" THEN CSHPFailed(acc.exc)
        ELSE IF acc.handshake_type = "None" \/ acc.version_major = NoneT
                \/ acc.version_minor = NoneT \/ ~acc.has_formats
        THEN CSHPFailed("Abort")
        ELSE [exc |-> "none",
              msg |-> CSHPProtocolHandshakeMessage(acc.handshake_type, acc.version_major,
                                                   acc.version_minor, acc.formats)]

\* one step of the loop of CSHPProtocolHandshakeErrorMessage.from_json
CSHP_error_from_json_item(acc, item) ==
    IF acc.exc # "none" THEN acc
    ELSE IF Len(item) # 1 THEN [acc EXCEPT !.exc = "Abort"]
    ELSE IF item[1].k = "error"
    THEN [acc EXCEPT !.error = IF item[1].v.t = "null" THEN NoneT ELSE item[1].v.n]
    ELSE [acc EXCEPT !.exc = "Abort"]

RECURSIVE CSHP_error_from_json_loop(_, _)
CSHP_error_from_json_loop(acc, items) ==
    IF items = <<>> THEN acc
    ELSE CSHP_error_from_json_loop(CSHP_error_from_json_item(acc, Head(items)),
                                   Tail(items))

CSHPProtocolHandshakeErrorMessage_from_json(body) ==
    LET acc == CSHP_error_from_json_loop([exc |-> "none", error |-> NoneT], body.items)
    IN  IF acc.exc # "none" THEN CSHPFailed(acc.exc)
        ELSE IF acc.error = NoneT THEN CSHPFailed("Abort")
        ELSE [exc |-> "none", msg |-> CSHPProtocolHandshakeErrorMessage(acc.error)]

\* AbstractCSHPLayer.receive_cshp_message on a received frame
receive_cshp_message(frame) ==
    IF frame.tag = NoneT THEN CSHPFailed("Abort")
    ELSE IF frame.tag # 1 THEN CSHPFailed("Abort")
    ELSE IF ~frame.body.json THEN CSHPFailed("Abort")
    ELSE IF frame.body.top = "#number" THEN CSHPFailed("TypeError")
    ELSE IF frame.body.top = "messageProtocolHandshake"
    THEN CSHPProtocolHandshakeMessage_from_json(frame.body)
    ELSE IF frame.body.top = "messageProtocolHandshakeError"
    THEN CSHPProtocolHandshakeErrorMessage_from_json(frame.body)
    ELSE CSHPFailed("Abort")

send_cshp_message(msg) == Frame(1, CSHPMessage_to_json(msg))

-----------------------------------------------------------------------------
(* connection_layers/cshp_layer.py: CSHPClientLayer and CSHPServerLayer.   *)
(* The layer object is the record                                          *)
(*   pc, role ("client" / "server"), current_state, wait_timer;            *)
(*   abort, error_code, proposed_handshake, maybe_msg: locals of run();    *)
(*   result: what the race of decide_next_input returned;                  *)
(*   retval: the value run() returned, <<>> while it has not returned      *)

CSHP_TIMEOUT_WAIT == 10000

NoCSHPLayer ==
    [pc |-> "none", role |-> "client", current_state |-> "CLIENT_INIT",
     wait_timer |-> AsyncTimer, abort |-> FALSE, error_code |-> NoneT,
     proposed_handshake |-> NoCSHPMessage, maybe_msg |-> NoCSHPMessage,
     result |-> {}, retval |-> <<>>]

\* CSHPClientLayer.__init__ / CSHPServerLayer.__init__ and the first lines of run()
CSHPLayer_init(role) ==
    [NoCSHPLayer EXCEPT !.pc = "running", !.role = role,
                        !.current_state = IF role = "client" THEN "CLIENT_INIT"
                                          ELSE "SERVER_INIT"]

CSHPListenStates == {"CLIENT_LISTEN_CHOICE", "SERVER_LISTEN_PROPOSAL",
                     "SERVER_LISTEN_CONFIRM"}

cshp_send(c, msg) == [c EXCEPT !.out = Append(@, send_cshp_message(msg))]

\* FinishFirst.run as used by decide_next_input of both CSHP layers
CSHPFinishFirst(L, frame_arrived) ==
    (IF frame_arrived THEN {"cshp_message"} ELSE {})
    \cup (IF has_completed(L.wait_timer) THEN {"wait_timer"} ELSE {})

\* CSHPClientLayer.decide_next_input / CSHPServerLayer.decide_next_input
cshp_decide_next_input(c, result, parsed) ==
    LET c0 == [c EXCEPT !.L.result = result]
    IN  IF "cshp_message" \in result /\ parsed.exc # "none"
        THEN [c0 EXCEPT !.exc = parsed.exc]
        ELSE [c0 EXCEPT
                !.L.maybe_msg = IF "cshp_message" \in result THEN parsed.msg
                                ELSE NoCSHPMessage,
                !.L.current_state = IF "wait_timer" \in result THEN "TIMEOUT" ELSE @]

\* abort with the code of a timeout, whatever the cause
cshp_abort_as_timeout(c, code) == [c EXCEPT !.L.abort = TRUE, !.L.error_code = 1]

\* abort = True; error_code = code
cshp_abort(c, code) == [c EXCEPT !.L.abort = TRUE, !.L.error_code = code]

\* the wait timer is cancelled and kept
cshp_cancel_timer(c) == [c EXCEPT !.L.wait_timer = cancel(@)]

\* the wait timer is cancelled and replaced by a fresh one
cshp_reset_timer(c) == [c EXCEPT !.L.wait_timer = AsyncTimer]

\* CSHPClientLayer.run, state CLIENT_INIT
cshp_client_init(c) ==
    LET c1 == cshp_send(c, CSHPProtocolHandshakeMessage("announceMax", 1, 0,
                                                        <<"JSON-UTF8">>))
        err == StartError(c.L.wait_timer, CSHP_TIMEOUT_WAIT)
    IN  IF err # "none" THEN [c1 EXCEPT !.exc = err]
        ELSE [c1 EXCEPT !.L.wait_timer = start(@, CSHP_TIMEOUT_WAIT),
                        !.L.current_state = "CLIENT_LISTEN_CHOICE"]

\* a check of the server's choice that leaves the formats out
client_accepts_any_formats(msg) ==
    /\ msg.handshake_type = "SELECT"
    /\ msg.version_major = 1
    /\ msg.version_minor = 0

\* the check of the server's choice by the client
client_accepts(msg) ==
    /\ msg.handshake_type = "SELECT"
    /\ msg.version_major = 1
    /\ msg.version_minor = 0
    /\ Len(msg.formats) = 1
    /\ msg.formats[1] = "JSON-UTF8"

\* CSHPClientLayer.run, state CLIENT_LISTEN_CHOICE, after decide_next_input
cshp_client_listen_choice(c) ==
    LET maybe_msg == c.L.maybe_msg
    IN  IF c.exc # "none" THEN c
        ELSE IF maybe_msg.kind = "handshake"
        THEN IF ~client_accepts(maybe_msg)
             THEN cshp_abort(cshp_reset_timer(c), 3)
             ELSE [cshp_send(cshp_reset_timer(c), maybe_msg)
                     EXCEPT !.L.current_state = "CLIENT_OK"]
        ELSE IF maybe_msg.kind # "None" THEN cshp_abort(c, 2)
        ELSE c

\* CSHPServerLayer.run, state SERVER_INIT
cshp_server_init(c) ==
    LET err == StartError(c.L.wait_timer, CSHP_TIMEOUT_WAIT)
    IN  IF err # "none" THEN [c EXCEPT !.exc = err]
        ELSE [c EXCEPT !.L.wait_timer = start(@, CSHP_TIMEOUT_WAIT),
                       !.L.current_state = "SERVER_LISTEN_PROPOSAL"]

\* a check of the client's announcement that leaves the version out
server_accepts_any_version(msg) ==
    /\ msg.handshake_type = "announceMax"
    /\ \E i \in 1..Len(msg.formats) : msg.formats[i] = "JSON-UTF8"

\* the check of the client's announcement by the server
server_accepts(msg) ==
    /\ msg.handshake_type = "announceMax"
    /\ msg.version_major = 1
    /\ msg.version_minor = 0
    /\ \E i \in 1..Len(msg.formats) : msg.formats[i] = "JSON-UTF8"

\* CSHPServerLayer.run, state SERVER_LISTEN_PROPOSAL, after decide_next_input
cshp_server_listen_proposal(c) ==
    LET maybe_msg == c.L.maybe_msg
        proposed_handshake ==
            CSHPProtocolHandshakeMessage("SELECT", 1, 0, <<"JSON-UTF8">>)
        c1 == cshp_reset_timer(c)
        c2 == cshp_send([c1 EXCEPT !.L.proposed_handshake = proposed_handshake],
                        proposed_handshake)
        err == StartError(c2.L.wait_timer, CSHP_TIMEOUT_WAIT)
    IN  IF c.exc # "none" THEN c
        ELSE IF maybe_msg.kind = "handshake"
        THEN IF ~server_accepts(maybe_msg) THEN cshp_abort(c1, 3)
             ELSE IF err # "none" THEN [c2 EXCEPT !.exc = err]
             ELSE [c2 EXCEPT !.L.wait_timer = start(@, CSHP_TIMEOUT_WAIT),
                             !.L.current_state = "SERVER_LISTEN_CONFIRM"]
        ELSE IF maybe_msg.kind # "None" THEN cshp_abort(c, 2)
        ELSE c

\* CSHPServerLayer.run, state SERVER_LISTEN_CONFIRM, after decide_next_input
cshp_server_listen_confirm(c) ==
    LET maybe_msg == c.L.maybe_msg
    IN  IF c.exc # "none" THEN c
        ELSE IF maybe_msg.kind = "handshake"
        THEN IF maybe_msg # c.L.proposed_handshake
             THEN cshp_abort(cshp_reset_timer(c), 3)
             ELSE [cshp_reset_timer(c) EXCEPT !.L.current_state = "SERVER_OK"]
        ELSE IF maybe_msg.kind # "None" THEN cshp_abort(c, 2)
        ELSE c

\* the code after the loop of run() of both layers
cshp_after_loop(c) ==
    LET c1 == [c EXCEPT !.L.wait_timer = cancel(@)]
    IN  IF c.L.abort
        THEN [cshp_send(c1, CSHPProtocolHandshakeErrorMessage(c.L.error_code))
                EXCEPT !.exc = "Abort"]
        ELSE [c1 EXCEPT !.L.pc = "returned", !.L.retval = <<1, 0>>]

\* One iteration of the loop of run() of the client or the server, and the
\* code after the loop when the loop condition fails afterwards.
cshp_iteration(L, result, parsed) ==
    LET c0 == Ctx(L)
        st == L.current_state
        c1 == IF st = "CLIENT_INIT" THEN cshp_client_init(c0)
              ELSE IF st = "CLIENT_LISTEN_CHOICE"
              THEN cshp_client_listen_choice(cshp_decide_next_input(c0, result, parsed))
              ELSE IF st = "SERVER_INIT" THEN cshp_server_init(c0)
              ELSE IF st = "SERVER_LISTEN_PROPOSAL"
              THEN cshp_server_listen_proposal(cshp_decide_next_input(c0, result, parsed))
              ELSE IF st = "SERVER_LISTEN_CONFIRM"
              THEN cshp_server_listen_confirm(cshp_decide_next_input(c0, result, parsed))
              ELSE IF st = "TIMEOUT" THEN cshp_abort(c0, 1)
              ELSE [c0 EXCEPT !.exc = "RuntimeError:This should not happen"]
        c2 == IF c1.exc = "none"
                 /\ (c1.L.abort \/ c1.L.current_state \in {"CLIENT_OK", "SERVER_OK"})
              THEN cshp_after_loop(c1) ELSE c1
    IN  IF c2.exc # "none" THEN [c2 EXCEPT !.L.pc = c2.exc] ELSE c2

\* CSHPClientLayer(websocket, ski) / CSHPServerLayer(websocket, ski)
CSHPConstruct(s) ==
    /\ driver[s].pc = "CSHP"
    /\ cshp[s].pc = "none"
    /\ cshp' = [cshp EXCEPT ![s] = CSHPLayer_init(driver[s].role)]
    /\ UNCHANGED <<now, trust, csh, cmi, pin, data, driver, inbox, sent, budget, timers, race, callers>>

\* one iteration of run() of the CSHP layer of side s
CSHPRun(s) ==
    /\ driver[s].pc = "CSHP"
    /\ cshp[s].pc = "running"
    /\ \E take \in BOOLEAN :
         LET L == cshp[s]
             listening == L.current_state \in CSHPListenStates
             result == IF listening THEN CSHPFinishFirst(L, take) ELSE {}
             parsed == IF take THEN receive_cshp_message(Head(inbox[s]))
                       ELSE CSHPFailed("none")
             c == cshp_iteration(L, result, parsed)
         IN  /\ take => (listening /\ inbox[s] # <<>>)
             /\ listening => result # {}
             /\ cshp' = [cshp EXCEPT ![s] = c.L]
             /\ Transmit(s, c.out, take)
    /\ UNCHANGED <<now, trust, csh, cmi, pin, data, driver, budget, timers, race, callers>>

CSHPTimerFire(s) ==
    /\ cshp[s].pc = "running"
    /\ Expired(cshp[s].wait_timer)
    /\ cshp' = [cshp EXCEPT ![s].wait_timer.status = "completed"]
    /\ UNCHANGED <<now, trust, csh, cmi, pin, data, driver, inbox, sent, budget, timers, race, callers>>

CSHPBusy(s) ==
    /\ cshp[s].pc = "running"
    /\ \/ cshp[s].current_state \notin CSHPListenStates
       \/ CSHPFinishFirst(cshp[s], FALSE) # {}
       \/ Expired(cshp[s].wait_timer)

CSHPDeadlines(s) ==
    IF cshp[s].pc = "running" /\ cshp[s].wait_timer.status = "running"
    THEN {cshp[s].wait_timer.at} ELSE {}

-----------------------------------------------------------------------------
(* connection_layers/cmi_layer.py.  cmi[s].pc: "none", "waiting" (inside   *)
(* the race of run()), "returned" or the exception; timeout_at: the end of *)
(* asyncio.sleep(CMI_TIMEOUT_SECONDS).                                     *)

CMI_TIMEOUT_SECONDS == 10

NoCMILayer == [pc |-> "none", timeout_at |-> NoneT]

send_cmi_message == Frame(0, Octets("00"))

\* an evaluation that looks at the first octet only
evaluate_cmi_message_first_octet(frame) == frame.tag = 0 /\ ~frame.body.json

\* AbstractCMILayer.evaluate_cmi_message: TRUE, or Abort is raised
evaluate_cmi_message(frame) ==
    frame.tag = 0 /\ ~frame.body.json /\ frame.body.top = "00"

\* CMILayerClient.run / CMILayerServer.run up to the race
CMIStart(s) ==
    /\ driver[s].pc = "CMI"
    /\ cmi[s].pc = "none"
    /\ cmi' = [cmi EXCEPT ![s] = [pc |-> "waiting",
                                  timeout_at |-> now + CMI_TIMEOUT_SECONDS * 1000]]
    /\ Transmit(s, IF driver[s].role = "client" THEN <<send_cmi_message>> ELSE <<>>,
                FALSE)
    /\ UNCHANGED <<now, trust, csh, cshp, pin, data, driver, budget, timers, race, callers>>

\* the race of run() returns: the timer wins whenever it is done
CMIRace(s) ==
    /\ driver[s].pc = "CMI"
    /\ cmi[s].pc = "waiting"
    /\ \E take \in BOOLEAN :
         LET timer == now >= cmi[s].timeout_at
             ok == take /\ evaluate_cmi_message(Head(inbox[s]))
         IN  /\ take => inbox[s] # <<>>
             /\ take \/ timer
             /\ cmi' = [cmi EXCEPT ![s].pc = IF timer THEN "Abort"
                                             ELSE IF ok THEN "returned" ELSE "Abort"]
             /\ Transmit(s, IF ~timer /\ driver[s].role = "server"
                            THEN <<send_cmi_message>> ELSE <<>>, take)
    /\ UNCHANGED <<now, trust, csh, cshp, pin, data, driver, budget, timers, race, callers>>

CMIBusy(s) == cmi[s].pc = "waiting" /\ now >= cmi[s].timeout_at

CMIDeadlines(s) == IF cmi[s].pc = "waiting" THEN {cmi[s].timeout_at} ELSE {}

-----------------------------------------------------------------------------
(* connection_layers/pin_layer.py.                                         *)

PinState == {"required", "optional", "pinOk", "none"}
PinInputPermissionType == {"busy", "ok"}

\* a JSON string given by its characters
JChars(chars) == [t |-> "str", s |-> "chars", n |-> 0, m |-> 0, l |-> chars]

HexDigits == {"0", "1", "2", "3", "4", "5", "6", "7", "8", "9",
              "a", "b", "c", "d", "e", "f", "A", "B", "C", "D", "E", "F"}

\* PinInputMessage.PIN_REGEX.fullmatch(pin)
PIN_REGEX_fullmatch(chars) ==
    Len(chars) >= 8 /\ Len(chars) <= 16 /\ \A i \in 1..Len(chars) : chars[i] \in HexDigits

PinStateMessage(pin_state, input_permission) ==
    [kind |-> "state", pin_state |-> pin_state, input_permission |-> input_permission]

NoPinMessage == [kind |-> "None", pin_state |-> "None", input_permission |-> "None"]

PinStateMessage_to_json(msg) ==
    Json("connectionPinState",
         <<Item("pinState", JStr(msg.pin_state))>>
         \o (IF msg.input_permission # "None"
             THEN <<Item("inputPermission", JStr(msg.input_permission))>> ELSE <<>>))

PinFailed(exc) == [exc |-> exc, msg |-> NoPinMessage]

\* one step of the loop of PinStateMessage.from_json
PinState_from_json_item(acc, item) ==
    IF acc.exc # "none" THEN acc
    ELSE IF Len(item) # 1 THEN [acc EXCEPT !.exc = "Abort"]
    ELSE LET key == item[1].k
             value == item[1].v
         IN  IF key = "pinState"
             THEN IF value.t = "str" /\ value.s \in PinState
                  THEN [acc EXCEPT !.pin_state = value.s]
                  ELSE [acc EXCEPT !.exc = "Abort"]
             ELSE IF key = "inputPermission"
             THEN IF value.t = "str" /\ value.s \in PinInputPermissionType
                  THEN [acc EXCEPT !.input_permission = value.s]
                  ELSE [acc EXCEPT !.exc = "Abort"]
             ELSE [acc EXCEPT !.exc = "Abort"]

RECURSIVE PinState_from_json_loop(_, _)
PinState_from_json_loop(acc, items) ==
    IF items = <<>> THEN acc
    ELSE PinState_from_json_loop(PinState_from_json_item(acc, Head(items)), Tail(items))

PinStateMessage_from_json(body) ==
    LET acc == PinState_from_json_loop(
                   [exc |-> "none", pin_state |-> "None", input_permission |-> "None"],
                   body.items)
    IN  IF acc.exc # "none" THEN PinFailed(acc.exc)
        ELSE IF acc.pin_state = "None" THEN PinFailed("Abort")
        ELSE [exc |-> "none", msg |-> PinStateMessage(acc.pin_state, acc.input_permission)]

\* one step of the loop of PinInputMessage.from_json; acc.pin is the value
\* of the last "pin" item
PinInput_from_json_item(acc, item) ==
    IF acc.exc # "none" THEN acc
    ELSE IF Len(item) # 1 THEN [acc EXCEPT !.exc = "Abort"]
    ELSE IF item[1].k = "pin" THEN [acc EXCEPT !.pin = item[1].v]
    ELSE [acc EXCEPT !.exc = "Abort"]

RECURSIVE PinInput_from_json_loop(_, _)
PinInput_from_json_loop(acc, items) ==
    IF items = <<>> THEN acc
    ELSE PinInput_from_json_loop(PinInput_from_json_item(acc, Head(items)), Tail(items))

\* PinInputMessage.from_json, then PinInputMessage.__init__ on the pin
PinInputMessage_from_json(body) ==
    LET acc == PinInput_from_json_loop([exc |-> "none", pin |-> JNull], body.items)
    IN  IF acc.exc # "none" THEN PinFailed(acc.exc)
        ELSE IF acc.pin.t = "null" THEN PinFailed("Abort")
        ELSE IF acc.pin.t # "str" THEN PinFailed("TypeError")
        ELSE IF ~PIN_REGEX_fullmatch(acc.pin.l) THEN PinFailed("ValueError")
        ELSE [exc |-> "none", msg |-> [NoPinMessage EXCEPT !.kind = "input"]]

\* one step of the loop of PinErrorMessage.from_json; acc.error is the value
\* of the last "error" item
PinError_from_json_item(acc, item) ==
    IF acc.exc # "none" THEN acc
    ELSE IF Len(item) # 1 THEN [acc EXCEPT !.exc = "Abort"]
    ELSE IF item[1].k = "error" THEN [acc EXCEPT !.error = item[1].v]
    ELSE [acc EXCEPT !.exc = "Abort"]

RECURSIVE PinError_from_json_loop(_, _)
PinError_from_json_loop(acc, items) ==
    IF items = <<>> THEN acc
    ELSE PinError_from_json_loop(PinError_from_json_item(acc, Head(items)), Tail(items))

PinErrorMessage_from_json(body) ==
    LET acc == PinError_from_json_loop([exc |-> "none", error |-> JNull], body.items)
    IN  IF acc.exc # "none" THEN PinFailed(acc.exc)
        ELSE IF acc.error.t = "null" THEN PinFailed("Abort")
        ELSE [exc |-> "none", msg |-> [NoPinMessage EXCEPT !.kind = "error"]]

\* PinLayer.receive_pin_message on a received frame
receive_pin_message(frame) ==
    IF frame.tag = NoneT THEN PinFailed("Abort")
    ELSE IF frame.tag # 1 THEN PinFailed("Abort")
    ELSE IF ~frame.body.json THEN PinFailed("Abort")
    ELSE IF frame.body.top = "#number" THEN PinFailed("TypeError")
    ELSE IF frame.body.top = "connectionPinState" THEN PinStateMessage_from_json(frame.body)
    ELSE IF frame.body.top = "connectionPinInput" THEN PinInputMessage_from_json(frame.body)
    ELSE IF frame.body.top = "connectionPinError" THEN PinErrorMessage_from_json(frame.body)
    ELSE PinFailed("Abort")

send_pin_message(msg) == Frame(1, PinStateMessage_to_json(msg))

\* an outcome that accepts every PinState of the peer
pin_run_outcome_any_state(frame) ==
    LET remote_init_msg == receive_pin_message(frame)
    IN  IF remote_init_msg.exc # "none" THEN remote_init_msg.exc
        ELSE IF remote_init_msg.msg.kind # "state" THEN "Abort"
        ELSE "returned"

\* the outcome of PinLayer.run once the peer's frame is received
pin_run_outcome(frame) ==
    LET remote_init_msg == receive_pin_message(frame)
    IN  IF remote_init_msg.exc # "none" THEN remote_init_msg.exc
        ELSE IF remote_init_msg.msg.kind = "state" /\ remote_init_msg.msg.pin_state # "none"
        THEN "Abort"
        ELSE IF remote_init_msg.msg.kind # "state" THEN "Abort"
        ELSE "returned"

\* PinLayer.run: the announcement of the own pin state
PinStart(s) ==
    /\ driver[s].pc = "PIN"
    /\ pin[s] = "none"
    /\ pin' = [pin EXCEPT ![s] = "waiting"]
    /\ Transmit(s, <<send_pin_message(PinStateMessage("none", "None"))>>, FALSE)
    /\ UNCHANGED <<now, trust, csh, cshp, cmi, data, driver, budget, timers, race, callers>>

\* PinLayer.run: the peer's frame is received
PinReceive(s) ==
    /\ driver[s].pc = "PIN"
    /\ pin[s] = "waiting"
    /\ inbox[s] # <<>>
    /\ pin' = [pin EXCEPT ![s] = pin_run_outcome(Head(inbox[s]))]
    /\ Transmit(s, <<>>, TRUE)
    /\ UNCHANGED <<now, trust, csh, cshp, cmi, data, driver, budget, timers, race, callers>>

-----------------------------------------------------------------------------
(* connection_layers/data_layer.py: SHIPDataConnection.                    *)

JHeader(protocol_id) == [t |-> "header", s |-> protocol_id, n |-> 0, m |-> 0, l |-> <<>>]

\* a list of strings as payload
JList(strings) == [t |-> "list", s |-> "", n |-> 0, m |-> 0, l |-> strings]

\* the Python dict {key: value} with a str key (key_is_str) or an int key
\* written in decimal; value is an int
PyDict(key_is_str, key, value) ==
    [t |-> "dict", s |-> key, n |-> value, m |-> IF key_is_str THEN 1 ELSE 0, l |-> <<>>]

\* json.loads(json.dumps(data)): the keys of a dict come back as str, every
\* other value of the payloads used here comes back as it was
json_dumps_loads(payload) ==
    IF payload.t = "dict" THEN [payload EXCEPT !.m = 1] ELSE payload

\* the frame of send_data(data), as the receiver's json.loads reads it
send_data(protocol_id, payload) ==
    Frame(2, Json("data", <<Item("header", JHeader(protocol_id)),
                           Item("payload", json_dumps_loads(payload))>>))

HasKey(item, key) == \E i \in 1..Len(item) : item[i].k = key

ValueOf(item, key) == item[CHOOSE i \in 1..Len(item) : item[i].k = key].v

\* recv_data on a received frame: [exc |-> "none", payload |-> value] or the
\* exception raised; the StopIteration of next() leaves the coroutine as a
\* RuntimeError
recv_data(frame) ==
    LET failed(e) == [exc |-> e, payload |-> JNull]
        items == frame.body.items
        with_payload == {i \in 1..Len(items) : HasKey(items[i], "payload")}
    IN  IF frame.tag = NoneT THEN failed("Abort")
        ELSE IF frame.tag # 2 THEN failed("Abort")
        ELSE IF ~frame.body.json THEN failed("Abort")
        ELSE IF frame.body.top = "#list" THEN failed("TypeError")
        ELSE IF frame.body.top # "data" THEN failed("KeyError")
        ELSE IF with_payload = {} THEN failed("RuntimeError:coroutine raised StopIteration")
        ELSE [exc |-> "none",
              payload |-> ValueOf(items[CHOOSE i \in with_payload :
                                          \A j \in with_payload : i <= j], "payload")]

NoData == [pc |-> "none", payload |-> JNull]

\* ship_connection: conn.recv_data(), then conn.send_data(...)
DataExchange(s) ==
    /\ driver[s].pc = "DATA"
    /\ data[s].pc = "none"
    /\ inbox[s] # <<>>
    /\ LET r == recv_data(Head(inbox[s]))
       IN  /\ data' = [data EXCEPT ![s] = [pc |-> IF r.exc = "none" THEN "returned"
                                                  ELSE r.exc,
                                           payload |-> r.payload]]
           /\ Transmit(s, IF r.exc = "none"
                          THEN <<send_data("S2", JStr("fake S2 message"))>> ELSE <<>>,
                       TRUE)
    /\ UNCHANGED <<now, trust, csh, cshp, cmi, pin, driver, budget, timers, race, callers>>

-----------------------------------------------------------------------------
(* shipproto.py: ship_connection (role "server") and example_client.py:    *)
(* main_sme (role "client").  driver[s].pc is "off", "start", the layer    *)
(* being run ("CMI", "CSH", "CSHP", "PIN", "DATA"), "done" (the body ended *)
(* normally), "closed" (the except clause ran) or "crashed" (another       *)
(* exception left the try statement).  close_calls counts the closes of    *)
(* the transport the driver makes; left: the client has left the block of  *)
(* its "async with websockets.connect(...)".                               *)

NoDriver ==
    [pc |-> "off", role |-> "server", url_path |-> "/ship/", close_calls |-> 0,
     left |-> FALSE]

\* the outcome of the run of the layer the driver is in
LayerPc(s) ==
    LET at == driver[s].pc
    IN  IF at = "CMI" THEN cmi[s].pc
        ELSE IF at = "CSH" THEN csh[s].pc
        ELSE IF at = "CSHP" THEN cshp[s].pc
        ELSE IF at = "PIN" THEN pin[s]
        ELSE IF at = "DATA" THEN data[s].pc
        ELSE "none"

Layers == {"CMI", "CSH", "CSHP", "PIN", "DATA"}

\* the statement that follows the run of a layer in the try block
NextLayer(role, at) ==
    IF at = "CMI" THEN "CSH"
    ELSE IF at = "CSH" THEN "CSHP"
    ELSE IF at = "CSHP" THEN "PIN"
    ELSE IF at = "PIN" /\ role = "server" THEN "DATA"
    ELSE "done"

\* the try block goes on after an Abort as after a normal return
ReturnsNormally_or_aborts(pc) == pc \in {"returned", "Abort"}

\* the await of a layer's run() returns
ReturnsNormally(pc) == pc = "returned"

\* the except clause: AbortConnectionException only
Caught(pc) == pc = "Abort"

\* the first lines of ship_connection / main_sme: a new TrustManager, and
\* in the server the check of the URL path
DriverStart(s) ==
    /\ driver[s].pc = "start"
    /\ trust' = [trust EXCEPT ![s] = TrustManager]
    /\ IF driver[s].role = "server" /\ driver[s].url_path # "/ship/"
       THEN driver' = [driver EXCEPT ![s].pc = "closed", ![s].close_calls = @ + 1]
       ELSE driver' = [driver EXCEPT ![s].pc = "CMI"]
    /\ UNCHANGED <<now, csh, cshp, cmi, pin, data, inbox, sent, budget, timers, race, callers>>

\* a layer returned: the next statement of the try block
DriverAdvance(s) ==
    /\ driver[s].pc \in Layers
    /\ ReturnsNormally(LayerPc(s))
    /\ driver' = [driver EXCEPT ![s].pc = NextLayer(driver[s].role, driver[s].pc)]
    /\ UNCHANGED <<now, trust, csh, cshp, cmi, pin, data, inbox, sent, budget, timers, race, callers>>

\* a layer raised AbortConnectionException: the except clause closes
DriverAbort(s) ==
    /\ driver[s].pc \in Layers
    /\ Caught(LayerPc(s))
    /\ driver' = [driver EXCEPT ![s].pc = "closed", ![s].close_calls = @ + 1]
    /\ UNCHANGED <<now, trust, csh, cshp, cmi, pin, data, inbox, sent, budget, timers, race, callers>>

\* a layer raised another exception: it leaves the function
DriverCrash(s) ==
    /\ driver[s].pc \in Layers
    /\ LayerPc(s) \notin {"none", "running", "waiting"}
    /\ ~ReturnsNormally(LayerPc(s))
    /\ ~Caught(LayerPc(s))
    /\ driver' = [driver EXCEPT ![s].pc = "crashed"]
    /\ UNCHANGED <<now, trust, csh, cshp, cmi, pin, data, inbox, sent, budget, timers, race, callers>>

\* main_sme: the try statement is over, in any way, and the block of
\* "async with websockets.connect(...) as websocket" is left, which closes
\* the connection
DriverExit(s) ==
    /\ driver[s].role = "client"
    /\ driver[s].pc \in {"done", "closed", "crashed"}
    /\ ~driver[s].left
    /\ driver' = [driver EXCEPT ![s].left = TRUE, ![s].close_calls = @ + 1]
    /\ UNCHANGED <<now, trust, csh, cshp, cmi, pin, data, inbox, sent, budget, timers, race, callers>>

-----------------------------------------------------------------------------
(* Time.  The clock advances only when every task is suspended: no timer   *)
(* is due, no race has a finished awaitable other than a frame that may    *)
(* still be on its way, and no driver has a statement to run.  It advances *)
(* by TickStep or up to the next deadline, whichever comes first.          *)

Suspended(s) ==
    \/ driver[s].pc = "CMI" /\ cmi[s].pc = "waiting" /\ ~CMIBusy(s)
    \/ driver[s].pc = "CSH" /\ csh[s].pc = "running" /\ ~CSHBusy(s)
    \/ driver[s].pc = "CSHP" /\ cshp[s].pc = "running" /\ ~CSHPBusy(s)

Idle(s) ==
    \/ driver[s].pc \in {"off", "done", "closed", "crashed"}
    \/ driver[s].pc = "PIN" /\ pin[s] = "waiting"
    \/ driver[s].pc = "DATA" /\ data[s].pc = "none"

Deadlines == UNION {CMIDeadlines(s) \cup CSHDeadlines(s) \cup CSHPDeadlines(s) : s \in Sides}

Tick ==
    /\ now < MaxTime
    /\ \A s \in Sides : Suspended(s) \/ Idle(s)
    /\ \E s \in Sides : Suspended(s)
    /\ now' = SetMin({now + TickStep} \cup {d \in Deadlines : d > now})
    /\ UNCHANGED <<trust, csh, cshp, cmi, pin, data, driver, inbox, sent, budget, timers, race, callers>>

-----------------------------------------------------------------------------
(* The environment of a single stack: an arbitrary peer.  It puts a frame  *)
(* on the transport while the layer under study runs; a frame is injected  *)
(* only when the previous one was received, which loses no behaviour of    *)
(* the layer (it receives one frame per race).                             *)

WaitingInputs == {0, 10000, 30000}

\* every well-formed Hello over the waiting values above
HelloInputs ==
    {send_csh_message(CSHMessage(phase, waiting, prolongation_request)) :
        phase \in CSHPhases, waiting \in WaitingInputs \cup {NoneT},
        prolongation_request \in {"None", "True", "False"}}

\* frames receive_csh_message rejects: empty, wrong tag, not JSON, another
\* message family, an unknown phase, no phase, an item with two keys
MalformedHelloInputs ==
    {EmptyFrame,
     Frame(2, CSHMessage_to_json(CSHMessage("ready", NoneT, "None"))),
     Frame(1, NotJson),
     Frame(1, Json("messageProtocolHandshakeError", <<Item("error", JInt(1))>>)),
     Frame(1, Json("connectionHello", <<Item("phase", JStr("done"))>>)),
     Frame(1, Json("connectionHello", <<Item("waiting", JInt(1000))>>)),
     Frame(1, Json("connectionHello",
                   <<<<Pair("phase", JStr("ready")), Pair("waiting", JInt(1000))>>>>))}

PeerSend(s, frames) ==
    /\ budget > 0
    /\ inbox[s] = <<>>
    /\ \E frame \in frames : inbox' = [inbox EXCEPT ![s] = <<frame>>]
    /\ budget' = budget - 1
    /\ UNCHANGED <<now, trust, csh, cshp, cmi, pin, data, driver, sent, timers, race, callers>>

CSHPeerSend(s) ==
    /\ driver[s].pc = "CSH"
    /\ csh[s].pc = "running"
    /\ PeerSend(s, HelloInputs \cup MalformedHelloInputs)

-----------------------------------------------------------------------------
(* SpecCSH: one CSHLayer, constructed over a TrustManager in any state,    *)
(* against an arbitrary peer.                                              *)

\* a TrustManager that was asked about the remote SKI before: the listener
\* is still deciding, or trust was granted
TrustManagerStates ==
    {TrustManager,
     [TrustManager EXCEPT !["remote"] = [event |-> "clear", task |-> TRUE, calls |-> 1]],
     [TrustManager EXCEPT !["remote"] = [event |-> "set", task |-> FALSE, calls |-> 1]]}

Quiet ==
    /\ now = 0
    /\ timers = NoTimers
    /\ race = NoRace
    /\ callers = NoCallers
    /\ csh = [s \in Sides |-> NoCSHLayer]
    /\ cshp = [s \in Sides |-> NoCSHPLayer]
    /\ cmi = [s \in Sides |-> NoCMILayer]
    /\ pin = [s \in Sides |-> "none"]
    /\ data = [s \in Sides |-> NoData]
    /\ inbox = [s \in Sides |-> <<>>]
    /\ sent = [s \in Sides |-> <<>>]

InitCSH ==
    /\ Quiet
    /\ \E tm \in TrustManagerStates : trust = [s \in Sides |-> tm]
    /\ driver = [s \in Sides |-> IF s = "A" THEN [NoDriver EXCEPT !.pc = "CSH"]
                                 ELSE NoDriver]
    /\ budget = MaxPeerFrames

NextCSH ==
    \/ CSHConstruct("A")
    \/ CSHRun("A")
    \/ CSHTimerFire("A")
    \/ TrustGrant("A")
    \/ CSHPeerSend("A")
    \/ Tick

SpecCSH == InitCSH /\ [][NextCSH]_vars

-----------------------------------------------------------------------------
(* Properties of CSHLayer checked on SpecCSH.                              *)

AbortedHello == send_csh_message(CSHMessage("aborted", NoneT, "None"))

Last(seq) == seq[Len(seq)]

CSHEnded(s) == csh[s].pc \notin {"none", "running"}

NoCSHTimerRunning(s) == \A name \in CSHTimerNames : csh[s][name].status # "running"

\* every frame the peer has put on the transport of s is a well-formed
\* Hello: a malformed frame that was received ended run() in that step
OnlyHellosHeard(s) ==
    /\ csh[s].pc \notin {"Abort", "TypeError"} \/ csh[s].abort
    /\ inbox[s] = <<>> \/ Head(inbox[s]) \in HelloInputs

\* C3: against a peer that sends only well-formed Hellos, CSHLayer.run ends
\* by returning normally or by raising Abort, never with another error
\* (State should not be ready, timer already started, timer not yet active,
\* a timer started with no duration).
C3_RunEndsReturnedOrAbort ==
    (CSHEnded("A") /\ OnlyHellosHeard("A")) => csh["A"].pc \in {"returned", "Abort"}

\* C4: whenever CSHLayer.run ended with Abort, whatever the cause, none of
\* the three timers is left running and the last frame the layer sent is
\* Hello{aborted}.
C4_AbortCancelsAndSaysAborted ==
    csh["A"].pc = "Abort" =>
        /\ NoCSHTimerRunning("A")
        /\ sent["A"] # <<>>
        /\ Last(sent["A"]) = AbortedHello

\* C5: whenever run() has ended with the state HELLO_OK, it returned
\* normally: no Abort, no Hello{aborted} among the frames sent, and no timer
\* left running.
C5_HelloOkReturns ==
    (CSHEnded("A") /\ csh["A"].current_state = "HELLO_OK") =>
        /\ csh["A"].pc = "returned"
        /\ \A i \in 1..Len(sent["A"]) : sent["A"][i] # AbortedHello
        /\ NoCSHTimerRunning("A")

\* C8: the state a CSHLayer is constructed in is READY_INIT exactly when the
\* trust manager reports the remote SKI trusted at that moment, and
\* PENDING_INIT otherwise.
C8_InitialStateFollowsTrust ==
    [][CSHConstruct("A") =>
          /\ csh'["A"].current_state \in {"READY_INIT", "PENDING_INIT"}
          /\ (csh'["A"].current_state = "READY_INIT")
                 <=> (trust["A"]["remote"].event = "set")]_vars

C8_ConstructedReady ==
    /\ csh["A"].pc = "running"
    /\ csh["A"].current_state = "READY_INIT"
    /\ trust["A"]["remote"].event = "set"
    /\ sent["A"] = <<>>

-----------------------------------------------------------------------------
(* SpecStacks: the server driver (side A) and the client driver (side B)   *)
(* connected to each other.  The example client never uses the data        *)
(* channel, so the server that reaches conn.recv_data() waits there.       *)

UrlPaths == {"/ship/", "/"}

InitStacks ==
    /\ Quiet
    /\ trust = [s \in Sides |-> TrustManager]
    /\ \E url_path \in UrlPaths :
         driver = [s \in Sides |->
                     IF s = "A"
                     THEN [NoDriver EXCEPT !.pc = "start", !.url_path = url_path]
                     ELSE [NoDriver EXCEPT !.pc = "start", !.role = "client"]]
    /\ budget = 0

StackStep(s) ==
    \/ DriverStart(s)
    \/ CMIStart(s)
    \/ CMIRace(s)
    \/ CSHConstruct(s)
    \/ CSHRun(s)
    \/ CSHTimerFire(s)
    \/ TrustGrant(s)
    \/ CSHPConstruct(s)
    \/ CSHPRun(s)
    \/ CSHPTimerFire(s)
    \/ PinStart(s)
    \/ PinReceive(s)
    \/ DriverAdvance(s)
    \/ DriverAbort(s)
    \/ DriverCrash(s)
    \/ DriverExit(s)

NextStacks == (\E s \in Sides : StackStep(s)) \/ Tick

SpecStacks == InitStacks /\ [][NextStacks]_vars

IsHello(frame) == frame.body.json /\ frame.body.top = "connectionHello"

\* C7: at the moment the CSH layer of a side has returned normally, no
\* connectionHello frame addressed to that side is waiting unread on the
\* transport (the next reader is its CSHP layer).
C7_NoHelloUnreadAtReturn ==
    \A s \in Sides :
        (driver[s].pc = "CSH" /\ csh[s].pc = "returned") =>
            \A i \in 1..Len(inbox[s]) : ~IsHello(inbox[s][i])

-----------------------------------------------------------------------------
(* SpecTrusting: two CSH layers over the reliable FIFO transport, each     *)
(* trusting at the start or granted trust later, at an instant: the clock  *)
(* stands still, so no timer expires before the grant or after it.         *)

InitTrusting ==
    /\ Quiet
    /\ trust \in [Sides -> TrustManagerStates]
    /\ driver = [s \in Sides |-> [NoDriver EXCEPT !.pc = "CSH"]]
    /\ budget = 0

NextTrusting ==
    \E s \in Sides :
        \/ CSHConstruct(s)
        \/ CSHRun(s)
        \/ TrustGrant(s)

\* every task that can run does run: the layers and the trust listeners
FairTrusting ==
    \A s \in Sides :
        /\ WF_vars(CSHConstruct(s))
        /\ WF_vars(CSHRun(s))
        /\ WF_vars(TrustGrant(s))

SpecTrusting == InitTrusting /\ [][NextTrusting]_vars /\ FairTrusting

BothReturned == \A s \in Sides : csh[s].pc = "returned"

\* C6: two CSH layers that both come to trust, with no timer expiring, both
\* return normally in the end: the handshake never comes to rest in a state
\* where a side has not returned.
C6_NoRestBeforeBothReturned == (~ENABLED NextTrusting) => BothReturned

-----------------------------------------------------------------------------
(* SpecCSHP: one CSHP layer, client or server, against an arbitrary peer.  *)

\* handshake messages of both types, of the supported and of another
\* version, with format lists that hold, lack or only hold JSON-UTF8
HandshakeInputs ==
    {send_cshp_message(CSHPProtocolHandshakeMessage(handshake_type, version[1],
                                                    version[2], formats)) :
        handshake_type \in CSHPProtocolHandshakeType,
        version \in {<<1, 0>>, <<1, 1>>, <<2, 0>>},
        formats \in {<<"JSON-UTF8">>, <<"JSON-UTF16">>, <<"JSON-UTF16", "JSON-UTF8">>}}

HandshakeErrorInputs ==
    {send_cshp_message(CSHPProtocolHandshakeErrorMessage(error)) : error \in {1, 3}}

\* frames receive_cshp_message rejects: empty, wrong tag, not JSON, another
\* message family, a handshake without version and formats
MalformedHandshakeInputs ==
    {EmptyFrame,
     Frame(2, CSHPMessage_to_json(CSHPProtocolHandshakeErrorMessage(1))),
     Frame(1, NotJson),
     Frame(1, CSHMessage_to_json(CSHMessage("ready", NoneT, "None"))),
     Frame(1, Json("messageProtocolHandshake", <<Item("handshakeType", JStr("SELECT"))>>))}

CSHPPeerSend(s) ==
    /\ driver[s].pc = "CSHP"
    /\ cshp[s].pc = "running"
    /\ PeerSend(s, HandshakeInputs \cup HandshakeErrorInputs \cup MalformedHandshakeInputs)

InitCSHP ==
    /\ Quiet
    /\ trust = [s \in Sides |-> TrustManager]
    /\ \E role \in {"client", "server"} :
         driver = [s \in Sides |->
                     IF s = "A" THEN [NoDriver EXCEPT !.pc = "CSHP", !.role = role]
                     ELSE NoDriver]
    /\ budget = MaxPeerFrames

NextCSHP ==
    \/ CSHPConstruct("A")
    \/ CSHPRun("A")
    \/ CSHPTimerFire("A")
    \/ CSHPPeerSend("A")
    \/ Tick

SpecCSHP == InitCSHP /\ [][NextCSHP]_vars

IsHandshakeError(frame) ==
    frame.tag = 1 /\ frame.body.json /\ frame.body.top = "messageProtocolHandshakeError"

HandshakeErrorsSent(s) == {i \in 1..Len(sent[s]) : IsHandshakeError(sent[s][i])}

\* C9: whenever run() of the CSHP client or server has raised Abort, the
\* layer sent exactly one ProtocolHandshakeError frame, and it is the last
\* frame it sent.
C9_AbortAfterOneErrorFrame ==
    cshp["A"].pc = "Abort" =>
        /\ Cardinality(HandshakeErrorsSent("A")) = 1
        /\ IsHandshakeError(Last(sent["A"]))

\* the handshake m does not pass the check of the state the layer L was in
\* when it received it (type, version, formats; the confirmation must equal
\* the proposal SELECT 1.0 [JSON-UTF8])
FailsHandshakeCheck(L, m) ==
    IF L.role = "client" \/ L.proposed_handshake # NoCSHPMessage
    THEN ~(/\ m.handshake_type = "SELECT"
           /\ m.version_major = 1 /\ m.version_minor = 0
           /\ m.formats = <<"JSON-UTF8">>)
    ELSE ~(/\ m.handshake_type = "announceMax"
           /\ m.version_major = 1 /\ m.version_minor = 0
           /\ "JSON-UTF8" \in {m.formats[i] : i \in 1..Len(m.formats)})

\* the error code of a ProtocolHandshakeError frame
ErrorCodeOf(frame) == frame.body.items[1][1].v.n

\* C10: the error code of every ProtocolHandshakeError the layer sends is
\* 1, 2 or 3: 1 exactly when the wait timer expired in a race that handled
\* no message, 2 exactly when the peer's message was a
\* ProtocolHandshakeError, 3 exactly when a received ProtocolHandshake
\* failed the type / version / formats check.
C10_ErrorCodeTellsCause ==
    \A i \in HandshakeErrorsSent("A") :
        LET code == ErrorCodeOf(sent["A"][i])
            L == cshp["A"]
        IN  /\ code \in {1, 2, 3}
            /\ (code = 1) <=> ("wait_timer" \in L.result /\ L.maybe_msg.kind = "None")
            /\ (code = 2) <=> (L.maybe_msg.kind = "error")
            /\ (code = 3) <=> (L.maybe_msg.kind = "handshake"
                               /\ FailsHandshakeCheck(L, L.maybe_msg))

\* the server has rejected a confirmation that differs from its proposal
C10_ConfirmationRejected ==
    /\ cshp["A"].pc = "Abort"
    /\ cshp["A"].role = "server"
    /\ cshp["A"].proposed_handshake # NoCSHPMessage
    /\ cshp["A"].maybe_msg.kind = "handshake"
    /\ HandshakeErrorsSent("A") # {}
    /\ ErrorCodeOf(Last(sent["A"])) = 3

-----------------------------------------------------------------------------
(* SpecDriver: one driver, the server or the client, against an arbitrary  *)
(* peer that sends frames of every layer, right and wrong ones.            *)

MaxDriverFrames == 6

DriverInputs ==
    {send_cmi_message,
     send_csh_message(CSHMessage("ready", 30000, "None")),
     send_cshp_message(CSHPProtocolHandshakeMessage("announceMax", 1, 0, <<"JSON-UTF8">>)),
     send_cshp_message(CSHPProtocolHandshakeMessage("SELECT", 1, 0, <<"JSON-UTF8">>)),
     send_pin_message(PinStateMessage("none", "None")),
     Frame(1, Json("connectionPinInput", <<Item("pin", JChars(<<"1", "2">>))>>)),
     send_data("S2", JStr("payload")),
     Frame(2, Json("data", <<Item("header", JHeader("S2"))>>))}

\* the peer sends while a layer of s, or its data channel, is at work
DriverPeerSend(s) ==
    /\ driver[s].pc \in Layers
    /\ LayerPc(s) \in {"none", "running", "waiting"}
    /\ PeerSend(s, DriverInputs)

InitDriver ==
    /\ Quiet
    /\ trust = [s \in Sides |-> TrustManager]
    /\ \E role \in {"client", "server"}, url_path \in UrlPaths :
         /\ role = "client" => url_path = "/ship/"
         /\ driver = [s \in Sides |->
                        IF s = "A"
                        THEN [NoDriver EXCEPT !.pc = "start", !.role = role,
                                              !.url_path = url_path]
                        ELSE NoDriver]
    /\ budget = MaxDriverFrames

NextDriver ==
    \/ StackStep("A")
    \/ DataExchange("A")
    \/ DriverPeerSend("A")
    \/ Tick

SpecDriver == InitDriver /\ [][NextDriver]_vars

LayerAborted(s) ==
    "Abort" \in {cmi[s].pc, csh[s].pc, cshp[s].pc, pin[s], data[s].pc}

\* the layers were started in the order of the try block, each after the
\* normal return of the one before
StartedInOrder(s) ==
    /\ csh[s].pc # "none" => cmi[s].pc = "returned"
    /\ cshp[s].pc # "none" => csh[s].pc = "returned"
    /\ pin[s] # "none" => cshp[s].pc = "returned"
    /\ data[s].pc # "none" => pin[s] = "returned"

\* C1: the driver runs the layers in the order CMI, CSH, CSHP, PIN, each
\* started only after the one before returned normally, and uses the data
\* channel only after PIN returned normally; and from the moment a layer
\* has raised Abort the driver's side sends no frame and receives none.
C1_LayersInOrder ==
    /\ [](StartedInOrder("A"))
    /\ [][LayerAborted("A") =>
            /\ sent'["A"] = sent["A"]
            /\ Len(inbox'["A"]) >= Len(inbox["A"])]_vars

\* the server went through all four layers and used the data channel
C1_ServerUsedDataChannel ==
    /\ driver["A"].pc = "done"
    /\ data["A"].pc = "returned"
    /\ cmi["A"].pc = "returned" /\ csh["A"].pc = "returned"
    /\ cshp["A"].pc = "returned" /\ pin["A"] = "returned"

LayerFailed(s) ==
    \E pc \in {cmi[s].pc, csh[s].pc, cshp[s].pc, pin[s], data[s].pc} :
        pc \notin {"none", "waiting", "running", "returned"}

\* the driver function of s is over
DriverOver(s) ==
    /\ driver[s].pc \in {"done", "closed", "crashed"}
    /\ driver[s].role = "client" => driver[s].left

\* C2: whenever the run of a layer or a data-channel operation has failed
\* and the driver is over, the driver has closed the transport: no
\* handshake ends unsuccessfully with the transport left open.
C2_FailureClosesTransport ==
    (LayerFailed("A") /\ DriverOver("A")) => driver["A"].close_calls >= 1

-----------------------------------------------------------------------------
(* The CSHP client (SpecCSHP with role client).                            *)

AnnounceMax == CSHPProtocolHandshakeMessage("announceMax", 1, 0, <<"JSON-UTF8">>)
Select == CSHPProtocolHandshakeMessage("SELECT", 1, 0, <<"JSON-UTF8">>)

\* the layer of side s takes the frame at the head of its inbox in this step
Receives(s) == inbox[s] # <<>> /\ inbox'[s] = Tail(inbox[s])

\* the handshake message the frame at the head of the inbox of s parses to
HeardHandshake(s) == receive_cshp_message(Head(inbox[s]))

C11_ClientRejectedSelect ==
    /\ cshp["A"].role = "client"
    /\ cshp["A"].pc = "Abort"
    /\ cshp["A"].maybe_msg =
          CSHPProtocolHandshakeMessage("SELECT", 1, 0, <<"JSON-UTF16", "JSON-UTF8">>)

-----------------------------------------------------------------------------
(* The CSHP server (SpecCSHP with role server).                            *)

IsHandshake(frame) ==
    frame.tag = 1 /\ frame.body.json /\ frame.body.top = "messageProtocolHandshake"

\* an announceMax of version 1.0 whose formats contain JSON-UTF8
IsGoodAnnouncement(m) ==
    /\ m.kind = "handshake"
    /\ m.handshake_type = "announceMax"
    /\ m.version_major = 1 /\ m.version_minor = 0
    /\ "JSON-UTF8" \in {m.formats[i] : i \in 1..Len(m.formats)}

ServerRunning == cshp["A"].role = "server" /\ cshp["A"].pc = "running"

\* C12: the CSHP server sends a ProtocolHandshake only in the step in
\* which it receives, in LISTEN_PROPOSAL, an announceMax 1.0 whose formats
\* contain JSON-UTF8, and what it sends and keeps as its proposal is SELECT
\* 1.0 [JSON-UTF8]; it reaches SERVER_OK only in a step in which it
\* receives, in LISTEN_CONFIRM, a ProtocolHandshake equal to the proposal;
\* every other ProtocolHandshake received in one of the two listen states
\* makes the run abort with ProtocolHandshakeError 3.
C12_ServerProposesAndConfirms ==
    /\ [](cshp["A"].role = "server" =>
            /\ cshp["A"].proposed_handshake \in {NoCSHPMessage, Select}
            /\ \A i \in 1..Len(sent["A"]) :
                  IsHandshake(sent["A"][i]) => sent["A"][i] = send_cshp_message(Select))
    /\ [][(ServerRunning /\ sent'["A"] # sent["A"] /\ IsHandshake(sent'["A"][Len(sent'["A"])]))
          => /\ cshp["A"].current_state = "SERVER_LISTEN_PROPOSAL"
             /\ Receives("A")
             /\ HeardHandshake("A").exc = "none"
             /\ IsGoodAnnouncement(HeardHandshake("A").msg)]_vars
    /\ [][(ServerRunning /\ cshp'["A"].current_state = "SERVER_OK")
          => /\ cshp["A"].current_state = "SERVER_LISTEN_CONFIRM"
             /\ Receives("A")
             /\ HeardHandshake("A").exc = "none"
             /\ HeardHandshake("A").msg = cshp["A"].proposed_handshake
             /\ cshp["A"].proposed_handshake = Select]_vars
    /\ [][(/\ ServerRunning
           /\ Receives("A")
           /\ HeardHandshake("A").exc = "none"
           /\ HeardHandshake("A").msg.kind = "handshake"
           /\ \/ /\ cshp["A"].current_state = "SERVER_LISTEN_PROPOSAL"
                 /\ ~IsGoodAnnouncement(HeardHandshake("A").msg)
              \/ /\ cshp["A"].current_state = "SERVER_LISTEN_CONFIRM"
                 /\ HeardHandshake("A").msg # Select)
          => /\ cshp'["A"].pc = "Abort"
             /\ sent'["A"] = Append(sent["A"],
                     send_cshp_message(CSHPProtocolHandshakeErrorMessage(3)))]_vars

\* the server returned after a confirmation of its proposal
C12_ServerConfirmed ==
    /\ cshp["A"].role = "server"
    /\ cshp["A"].pc = "returned"
    /\ cshp["A"].current_state = "SERVER_OK"
    /\ cshp["A"].maybe_msg = cshp["A"].proposed_handshake
    /\ sent["A"] = <<send_cshp_message(Select)>>

\* the server turned down an announceMax of version 2.0
C12_ServerRejectedVersion ==
    /\ cshp["A"].role = "server"
    /\ cshp["A"].pc = "Abort"
    /\ cshp["A"].maybe_msg = CSHPProtocolHandshakeMessage("announceMax", 2, 0, <<"JSON-UTF8">>)

-----------------------------------------------------------------------------
(* SpecShake: a CSHP client and a CSHP server over the reliable FIFO       *)
(* transport.  A frame may stay on the transport while the clock advances, *)
(* so either wait timer may expire before the frame is received.           *)

InitShake ==
    /\ Quiet
    /\ trust = [s \in Sides |-> TrustManager]
    /\ \E server \in Sides :
         driver = [s \in Sides |->
                     [NoDriver EXCEPT !.pc = "CSHP",
                                      !.role = IF s = server THEN "server" ELSE "client"]]
    /\ budget = 0

NextShake ==
    \/ \E s \in Sides : CSHPConstruct(s) \/ CSHPRun(s) \/ CSHPTimerFire(s)
    \/ Tick

\* the event loop runs every task that can run, and the clock advances
SpecShake == InitShake /\ [][NextShake]_vars /\ WF_vars(NextShake)

CSHPEnded(s) == cshp[s].pc \notin {"none", "running"}

\* the wait timer of s won a race that handled no message, and s aborted
WaitTimerExpired(s) ==
    /\ cshp[s].pc = "Abort"
    /\ "wait_timer" \in cshp[s].result
    /\ cshp[s].maybe_msg.kind = "None"

HandshakeFrames(s) == {i \in 1..Len(sent[s]) : IsHandshake(sent[s][i])}

ShakeDone ==
    \A s \in Sides :
        /\ cshp[s].pc = "returned"
        /\ cshp[s].retval = <<1, 0>>
        /\ cshp[s].current_state = IF cshp[s].role = "client" THEN "CLIENT_OK"
                                   ELSE "SERVER_OK"
        /\ sent[s] = IF cshp[s].role = "client"
                     THEN <<send_cshp_message(AnnounceMax), send_cshp_message(Select)>>
                     ELSE <<send_cshp_message(Select)>>

\* C13: a CSHP client run against a CSHP server over the reliable FIFO
\* transport comes to an end on both sides, and when neither wait timer
\* has expired both sides are in OK and returned (1, 0), the frames sent
\* are exactly the client's announceMax, the server's SELECT and the
\* client's echo of it, and neither side sent a ProtocolHandshakeError.
C13_BothSidesAgree ==
    /\ <>[](\A s \in Sides : CSHPEnded(s))
    /\ []((\A s \in Sides : CSHPEnded(s) /\ ~WaitTimerExpired(s)) => ShakeDone)
    /\ []((\A s \in Sides : ~WaitTimerExpired(s)) =>
            /\ \A s \in Sides : HandshakeErrorsSent(s) = {}
            /\ Cardinality(HandshakeFrames("A")) + Cardinality(HandshakeFrames("B")) <= 3)

\* both sides returned after the three frames
C13_ShakeDone == ShakeDone /\ inbox = [s \in Sides |-> <<>>]

-----------------------------------------------------------------------------
(* SpecCMI: the CMI layer of side A, client or server.  Its peer is the    *)
(* CMI layer of the other role on side B, or, with side B off, an          *)
(* arbitrary peer that may put one frame on the transport.                 *)

\* 0x00 0x00; no octet; the octet 0x00; 0x00 0x01; 0x01 0x00; 0x00 and JSON
CMIInputs ==
    {send_cmi_message, EmptyFrame, Frame(0, Octets("")), Frame(0, Octets("01")),
     Frame(1, Octets("00")),
     Frame(0, CSHMessage_to_json(CSHMessage("ready", NoneT, "None")))}

CMIPeerSend(s) ==
    /\ driver[s].pc = "CMI"
    /\ cmi[s].pc \in {"none", "waiting"}
    /\ driver[Peer(s)].pc = "off"
    /\ PeerSend(s, CMIInputs)

InitCMI ==
    /\ Quiet
    /\ trust = [s \in Sides |-> TrustManager]
    /\ \E role \in {"client", "server"}, peer \in {"off", "CMI"} :
         driver = [s \in Sides |->
                     IF s = "A" THEN [NoDriver EXCEPT !.pc = "CMI", !.role = role]
                     ELSE [NoDriver EXCEPT !.pc = peer,
                                           !.role = IF role = "client" THEN "server"
                                                    ELSE "client"]]
    /\ budget = MaxPeerFrames

NextCMI ==
    \/ \E s \in Sides : CMIStart(s) \/ CMIRace(s) \/ DriverAbort(s)
    \/ CMIPeerSend("A")
    \/ Tick

SpecCMI == InitCMI /\ [][NextCMI]_vars

\* the frame has at least two octets and the first two are 0x00 0x00
StartsWithTwoZeroOctets(frame) ==
    /\ frame # EmptyFrame
    /\ frame.tag = 0
    /\ ~frame.body.json
    /\ frame.body.top = "00"

\* C14: the race of CMI ends in Abort exactly when its 10 s timer is among
\* the winners or the frame received is empty, has one octet or does not
\* start with 0x00 0x00, and in a normal return otherwise; the client has
\* sent its 0x00 0x00 before it waits and sends nothing else, the server
\* sends its 0x00 0x00 only in the step in which it received a frame and
\* nothing else; a client and a server run against each other abort only
\* when the timer has expired.
C14_CMIOutcome ==
    /\ [][(cmi["A"].pc = "waiting" /\ cmi'["A"].pc # "waiting")
          => /\ cmi'["A"].pc \in {"Abort", "returned"}
             /\ (cmi'["A"].pc = "Abort") <=>
                   \/ now >= cmi["A"].timeout_at
                   \/ Receives("A") /\ ~StartsWithTwoZeroOctets(Head(inbox["A"]))
             /\ (cmi'["A"].pc = "returned") => Receives("A")]_vars
    /\ [](driver["A"].role = "client" =>
            sent["A"] = IF cmi["A"].pc = "none" THEN <<>> ELSE <<send_cmi_message>>)
    /\ [](driver["A"].role = "server" => sent["A"] \in {<<>>, <<send_cmi_message>>})
    /\ [][(driver["A"].role = "server" /\ sent'["A"] # sent["A"]) => Receives("A")]_vars
    /\ [](driver["B"].pc # "off" =>
            \A s \in Sides : cmi[s].pc = "Abort" => now >= cmi[s].timeout_at)

\* a client and a server run against each other both returned
C14_BothSucceeded ==
    /\ driver["B"].pc = "CMI"
    /\ \A s \in Sides : cmi[s].pc = "returned" /\ sent[s] = <<send_cmi_message>>

-----------------------------------------------------------------------------
(* SpecPIN: the PIN layer of side A, in the client or in the server,       *)
(* against an arbitrary peer.                                              *)

PinInputFrame(items) == Frame(1, Json("connectionPinInput", items))
PinErrorFrame(items) == Frame(1, Json("connectionPinError", items))

\* every PinState with and without inputPermission
PinStateInputs ==
    {send_pin_message(PinStateMessage(pin_state, input_permission)) :
        pin_state \in PinState, input_permission \in PinInputPermissionType \cup {"None"}}

\* PinInput with a pin of eight hex digits, of two digits, with a number
\* as pin, without a pin; PinError with and without an error
PinOtherInputs ==
    {PinInputFrame(<<Item("pin", JChars(<<"0", "1", "2", "3", "a", "B", "c", "D">>))>>),
     PinInputFrame(<<Item("pin", JChars(<<"1", "2">>))>>),
     PinInputFrame(<<Item("pin", JInt(12345678))>>),
     PinInputFrame(<<>>),
     PinErrorFrame(<<Item("error", JInt(1))>>),
     PinErrorFrame(<<>>)}

\* frames receive_pin_message rejects (empty, another tag, not JSON,
\* another family, an unknown pinState, no pinState, an item with two
\* keys), and a PinState whose last pinState item is none
MalformedPinInputs ==
    {EmptyFrame,
     Frame(2, PinStateMessage_to_json(PinStateMessage("none", "None"))),
     Frame(1, NotJson),
     Frame(1, CSHMessage_to_json(CSHMessage("ready", NoneT, "None"))),
     Frame(1, Json("connectionPinState", <<Item("pinState", JStr("maybe"))>>)),
     Frame(1, Json("connectionPinState", <<>>)),
     Frame(1, Json("connectionPinState",
                   <<<<Pair("pinState", JStr("none")), Pair("inputPermission", JStr("ok"))>>>>)),
     Frame(1, Json("connectionPinState",
                   <<Item("pinState", JStr("required")), Item("pinState", JStr("none"))>>))}

PinPeerSend(s) ==
    /\ driver[s].pc = "PIN"
    /\ pin[s] \in {"none", "waiting"}
    /\ PeerSend(s, PinStateInputs \cup PinOtherInputs \cup MalformedPinInputs)

InitPIN ==
    /\ Quiet
    /\ trust = [s \in Sides |-> TrustManager]
    /\ \E role \in {"client", "server"} :
         driver = [s \in Sides |->
                     IF s = "A" THEN [NoDriver EXCEPT !.pc = "PIN", !.role = role]
                     ELSE NoDriver]
    /\ budget = MaxPeerFrames

NextPIN == PinStart("A") \/ PinReceive("A") \/ PinPeerSend("A")

SpecPIN == InitPIN /\ [][NextPIN]_vars

\* what the received frame parses to
HeardPin(s) == receive_pin_message(Head(inbox[s]))

\* the frame is a PinState whose pin_state is the given one
IsPinState(frame, pin_state) ==
    /\ receive_pin_message(frame).exc = "none"
    /\ receive_pin_message(frame).msg.kind = "state"
    /\ receive_pin_message(frame).msg.pin_state = pin_state

\* C15: the one frame the PIN layer sends, before it receives, is
\* PinState {pinState: none} without inputPermission; its run ends in the
\* step in which it receives its one frame, and it returns normally
\* exactly when that frame is a PinState whose pin_state is none; a
\* PinState with required, optional or pinOk makes it abort.
C15_PinAcceptsOnlyNone ==
    /\ [](sent["A"] = IF pin["A"] = "none" THEN <<>>
                      ELSE <<Frame(1, Json("connectionPinState",
                                           <<<<Pair("pinState", JStr("none"))>>>>))>>)
    /\ [][(pin["A"] = "waiting" /\ pin'["A"] # "waiting")
          => /\ Receives("A")
             /\ (pin'["A"] = "returned") <=> IsPinState(Head(inbox["A"]), "none")
             /\ (\E pin_state \in PinState \ {"none"} :
                    IsPinState(Head(inbox["A"]), pin_state)) => pin'["A"] = "Abort"]_vars
    /\ [][pin["A"] # "waiting" => ~Receives("A")]_vars

\* the layer returned after its one frame and the one frame of the peer
C15_PinReturned ==
    /\ pin["A"] = "returned"
    /\ Len(sent["A"]) = 1
    /\ inbox["A"] = <<>>

\* a frame of type 1 whose JSON is a PinInput or a PinError
IsPinInputOrError(frame) ==
    /\ frame # EmptyFrame
    /\ frame.tag = 1
    /\ frame.body.json
    /\ frame.body.top \in {"connectionPinInput", "connectionPinError"}

\* C16: when the frame the PIN layer receives is a PinInput or a PinError,
\* whatever its content, the outcome of its run is Abort.
C16_PinInputOrErrorAborts ==
    [][(pin["A"] = "waiting" /\ Receives("A") /\ IsPinInputOrError(Head(inbox["A"])))
         => pin'["A"] = "Abort"]_vars

-----------------------------------------------------------------------------
(* SpecData: the data channel.  Side A is the server driver that has       *)
(* reached conn.recv_data(); side B is a user of SHIPDataConnection that   *)
(* sends one payload and receives the server's answer, or an arbitrary     *)
(* peer that sends a frame of its own.                                     *)

ProtocolIds == {"S2", "other"}

Payloads ==
    {JStr("fake S2 message"), JStr(""), JInt(0), JInt(7), JBool(TRUE),
     JList(<<>>), JList(<<"a", "b">>), PyDict(TRUE, "1", 7), PyDict(FALSE, "1", 7)}

DataFrame(items) == Frame(2, Json("data", items))

\* frames that are no well-formed data envelope: empty, another tag, not
\* JSON, JSON without a data key, a data list without items or without a
\* payload item; and envelopes unlike those of send_data: the payload
\* before the header, two payloads, header and payload in one item
OtherDataInputs ==
    {EmptyFrame,
     Frame(1, Json("data", <<Item("payload", JInt(7))>>)),
     Frame(2, NotJson),
     Frame(2, CSHMessage_to_json(CSHMessage("ready", NoneT, "None"))),
     DataFrame(<<>>),
     DataFrame(<<Item("header", JHeader("S2"))>>),
     DataFrame(<<Item("payload", JInt(7)), Item("header", JHeader("S2"))>>),
     DataFrame(<<Item("header", JHeader("S2")), Item("payload", JInt(7)),
                 Item("payload", JInt(0))>>),
     DataFrame(<<<<Pair("header", JHeader("S2")), Pair("payload", JStr(""))>>>>)}

\* side B calls send_data(payload) on its SHIPDataConnection
DataSend(s) ==
    /\ driver[s].pc = "off"
    /\ data[s].pc = "none"
    /\ budget > 0
    /\ \E protocol_id \in ProtocolIds, payload \in Payloads :
         /\ data' = [data EXCEPT ![s] = [pc |-> "sent", payload |-> payload]]
         /\ Transmit(s, <<send_data(protocol_id, payload)>>, FALSE)
    /\ budget' = budget - 1
    /\ UNCHANGED <<now, trust, csh, cshp, cmi, pin, driver, timers, race, callers>>

\* side B calls recv_data() after its send_data
DataReceive(s) ==
    /\ driver[s].pc = "off"
    /\ data[s].pc = "sent"
    /\ inbox[s] # <<>>
    /\ LET r == recv_data(Head(inbox[s]))
       IN  /\ data' = [data EXCEPT ![s] = [pc |-> IF r.exc = "none" THEN "returned"
                                                  ELSE r.exc,
                                           payload |-> r.payload]]
           /\ Transmit(s, <<>>, TRUE)
    /\ UNCHANGED <<now, trust, csh, cshp, cmi, pin, driver, budget, timers, race, callers>>

DataPeerSend(s) ==
    /\ driver[s].pc = "DATA"
    /\ data[s].pc = "none"
    /\ data[Peer(s)].pc = "none"
    /\ PeerSend(s, OtherDataInputs)

InitData ==
    /\ Quiet
    /\ trust = [s \in Sides |-> TrustManager]
    /\ driver = [s \in Sides |-> IF s = "A" THEN [NoDriver EXCEPT !.pc = "DATA"]
                                 ELSE NoDriver]
    /\ budget = MaxPeerFrames

NextData ==
    \/ DataSend("B")
    \/ DataReceive("B")
    \/ DataPeerSend("A")
    \/ DataExchange("A")
    \/ DriverAdvance("A")
    \/ DriverAbort("A")
    \/ DriverCrash("A")

SpecData == InitData /\ [][NextData]_vars

\* the frame has tag 2 and its JSON has a data list
IsDataEnvelope(frame) ==
    /\ frame # EmptyFrame
    /\ frame.tag = 2
    /\ frame.body.json
    /\ frame.body.top = "data"

\* the payload of the first item of the list that has a payload key, JNull
\* when no item has one
RECURSIVE FirstPayload(_)
FirstPayload(items) ==
    IF items = <<>> THEN JNull
    ELSE IF \E i \in 1..Len(Head(items)) : Head(items)[i].k = "payload"
    THEN LET i == CHOOSE i \in 1..Len(Head(items)) : Head(items)[i].k = "payload"
         IN  Head(items)[i].v
    ELSE FirstPayload(Tail(items))

HasPayloadItem(frame) ==
    \E j \in 1..Len(frame.body.items) :
        \E i \in 1..Len(frame.body.items[j]) : frame.body.items[j][i].k = "payload"

\* the receive of recv_data by side s in this step
RecvData(s) == data[s].pc \in {"none", "sent"} /\ Receives(s)

\* C17: recv_data on a frame of tag 2 whose data list has an item with a
\* payload key returns the payload of the first such item; on every other
\* frame (empty, another tag, invalid JSON, JSON without a data key, a data
\* list without a payload item) its outcome is Abort; and recv_data on the
\* frame of send_data(v) returns v.
C17_RecvDataReturnsOrAborts ==
    [][\A s \in Sides : RecvData(s) =>
          LET frame == Head(inbox[s])
          IN  /\ (IsDataEnvelope(frame) /\ HasPayloadItem(frame)) =>
                    /\ data'[s].pc = "returned"
                    /\ data'[s].payload = FirstPayload(frame.body.items)
              /\ ~(IsDataEnvelope(frame) /\ HasPayloadItem(frame)) =>
                    data'[s].pc = "Abort"
              /\ \A protocol_id \in ProtocolIds, payload \in Payloads :
                    frame = send_data(protocol_id, payload) => data'[s].payload = payload]_vars

-----------------------------------------------------------------------------
(* SpecTimer: AsyncTimer objects on their own.  Any of start, cancel and   *)
(* postpone is called on either timer at any time; postpone puts the timer *)
(* it creates in the place of the other one while that was never started.  *)

MaxTimerCalls == 4

\* durations of start(), in ms
Durations == {0, 10000, 30000}

\* extra durations of postpone(), in ms; a timedelta may be negative
Extras == Durations \cup {-10000}

TimerCall(name, id, arg, exc) ==
    [n |-> timers.op.n + 1, name |-> name, id |-> id, arg |-> arg, exc |-> exc]

Rest == UNCHANGED <<trust, csh, cshp, cmi, pin, data, driver, inbox, sent, budget, race, callers>>

TimerStart(id) ==
    /\ timers.op.n < MaxTimerCalls
    /\ \E after \in Durations :
         LET err == StartError(timers.pool[id], after)
         IN  timers' = [pool |-> IF err = "none"
                                 THEN [timers.pool EXCEPT ![id] = start(@, after)]
                                 ELSE timers.pool,
                        op |-> TimerCall("start", id, after, err)]
    /\ UNCHANGED now
    /\ Rest

TimerCancel(id) ==
    /\ timers.op.n < MaxTimerCalls
    /\ timers' = [pool |-> [timers.pool EXCEPT ![id] = cancel(@)],
                  op |-> TimerCall("cancel", id, 0, "none")]
    /\ UNCHANGED now
    /\ Rest

TimerPostpone(id) ==
    /\ timers.op.n < MaxTimerCalls
    /\ timers.pool[OtherTimer(id)] = AsyncTimer
    /\ \E duration \in Extras :
         LET err == PostponeError(timers.pool[id])
         IN  timers' = [pool |-> IF err = "none"
                                 THEN [timers.pool EXCEPT
                                         ![OtherTimer(id)] = postpone(timers.pool[id], duration),
                                         ![id] = cancel(@)]
                                 ELSE timers.pool,
                        op |-> TimerCall("postpone", id, duration, err)]
    /\ UNCHANGED now
    /\ Rest

\* _run_task: the sleep is over and the event is set
TimerFire(id) ==
    /\ Expired(timers.pool[id])
    /\ timers' = [timers EXCEPT !.pool[id].status = "completed"]
    /\ UNCHANGED now
    /\ Rest

\* the clock advances while no task can run
TimerTick ==
    /\ now < MaxTime
    /\ \A id \in TimerIds : ~Expired(timers.pool[id])
    /\ now' = SetMin({now + TickStep}
                     \cup {timers.pool[id].at : id \in {i \in TimerIds :
                              timers.pool[i].status = "running" /\ timers.pool[i].at > now}})
    /\ UNCHANGED timers
    /\ Rest

InitTimer ==
    /\ Quiet
    /\ trust = [s \in Sides |-> TrustManager]
    /\ driver = [s \in Sides |-> NoDriver]
    /\ budget = 0

NextTimer ==
    \/ \E id \in TimerIds :
         TimerStart(id) \/ TimerCancel(id) \/ TimerPostpone(id) \/ TimerFire(id)
    \/ TimerTick

SpecTimer == InitTimer /\ [][NextTimer]_vars

\* this step is the call name on a timer
Called(name) == timers'.op.n # timers.op.n /\ timers'.op.name = name

\* the timer the call of this step is made on, before and after the call
Callee == timers.pool[timers'.op.id]
CalleeAfter == timers'.pool[timers'.op.id]

\* C18: start() fails on every timer that was started before, whether it
\* is pending, was cancelled or has completed, and leaves the timer and its
\* deadline as they were; it succeeds only on a timer never started, which
\* is then pending with the deadline now + duration.
C18_StartOnlyOnce ==
    [][Called("start") =>
         /\ Callee.status \in {"running", "cancelled", "completed"} =>
               /\ timers'.op.exc # "none"
               /\ timers'.pool = timers.pool
         /\ timers'.op.exc = "none" =>
               /\ Callee = [status |-> "new", at |-> NoneT]
               /\ CalleeAfter = [status |-> "running", at |-> now + timers'.op.arg]]_vars

\* start() has failed on a cancelled timer
C18_RestartRefused ==
    /\ timers.op.name = "start"
    /\ timers.op.exc # "none"
    /\ timers.pool[timers.op.id].status = "cancelled"

\* C19: a cancel() before the deadline of a pending timer leaves it
\* cancelled, and a cancelled timer stays cancelled in every later state:
\* has_completed is false and wait_until_completed does not resolve;
\* cancel() on a timer never started and a repeated cancel() change nothing.
C19_CancelledNeverCompletes ==
    /\ [][Called("cancel") =>
            /\ (Callee.status = "running" /\ Callee.at > now) =>
                  CalleeAfter = [status |-> "cancelled", at |-> Callee.at]
            /\ Callee.status \in {"new", "cancelled"} => timers'.pool = timers.pool]_vars
    /\ [][\A id \in TimerIds :
            timers.pool[id].status = "cancelled" =>
                /\ timers'.pool[id] = timers.pool[id]
                /\ ~has_completed(timers'.pool[id])
                /\ ~Expired(timers'.pool[id])]_vars

\* a timer cancelled before its deadline, after the deadline has passed
C19_CancelledPastDeadline ==
    /\ timers.op.name = "cancel"
    /\ timers.pool[timers.op.id].status = "cancelled"
    /\ timers.pool[timers.op.id].at < now

\* C20: postpone(extra) succeeds exactly when the timer was started and
\* its deadline lies ahead; it then creates a pending timer whose remaining
\* time is extra plus the remaining time of the old one, and the old one is
\* cancelled; otherwise it fails and leaves the old timer as it was.
C20_PostponeNeedsTimeLeft ==
    [][Called("postpone") =>
         LET positive == Callee.at # NoneT /\ Callee.at - now > 0
             renewed == timers'.pool[OtherTimer(timers'.op.id)]
         IN  /\ (timers'.op.exc = "none") <=> positive
             /\ positive =>
                   /\ renewed.status = "running"
                   /\ renewed.at - now = timers'.op.arg + (Callee.at - now)
                   /\ CalleeAfter = [status |-> "cancelled", at |-> Callee.at]
             /\ ~positive => timers'.pool = timers.pool]_vars

\* a pending timer was postponed after some of its time had passed
C20_Postponed ==
    /\ timers.op.name = "postpone"
    /\ timers.op.exc = "none"
    /\ now > 0
    /\ timers.pool[timers.op.id].status = "cancelled"
    /\ timers.pool[OtherTimer(timers.op.id)].status = "running"

-----------------------------------------------------------------------------
(* SpecRace: one FinishFirst object over one, two or three awaitables (or  *)
(* none).  Each awaitable finishes when it likes, by returning a value or  *)
(* by raising; run() wakes when at least one has finished.                 *)

RaceInputs == {<<>>, <<"recv">>, <<"recv", "timer">>, <<"timer", "recv">>,
               <<"recv", "timer", "trust">>}

TaskValues == {"u", "v"}

NotRace == UNCHANGED <<now, trust, csh, cshp, cmi, pin, data, driver, inbox, sent,
                       budget, timers, callers>>

\* run() up to the await of asyncio.wait
RaceRun ==
    /\ race.pc = "new"
    /\ race' = IF WaitError(race) # "none"
               THEN [race EXCEPT !.pc = "raised", !.exc = WaitError(race)]
               ELSE [create_tasks(race) EXCEPT !.pc = "waiting"]
    /\ NotRace

\* a task that was not cancelled finishes, during the wait or after run()
TaskReturns(name) ==
    /\ race.tasks[name].status = "pending"
    /\ \E value \in TaskValues :
         race' = [race EXCEPT !.tasks[name] = [status |-> "result", value |-> value]]
    /\ NotRace

TaskRaises(name) ==
    /\ race.tasks[name].status = "pending"
    /\ race' = [race EXCEPT !.tasks[name] = [status |-> "exception", value |-> "KeyError"]]
    /\ NotRace

\* asyncio.wait returns: the rest of run()
RaceWake ==
    /\ race.pc = "waiting"
    /\ done(race) # {}
    /\ race' = collect_or_cancel(race, race.names)
    /\ NotRace

InitRace ==
    /\ Quiet
    /\ trust = [s \in Sides |-> TrustManager]
    /\ driver = [s \in Sides |-> NoDriver]
    /\ budget = 0

\* the FinishFirst object is constructed over one of the inputs
RaceConstruct ==
    /\ race = NoRace
    /\ \E names \in RaceInputs : race' = [race EXCEPT !.names = names, !.pc = "new"]
    /\ NotRace

NextRace ==
    \/ RaceConstruct
    \/ RaceRun
    \/ \E name \in RaceNames : TaskReturns(name) \/ TaskRaises(name)
    \/ RaceWake

SpecRace == InitRace /\ [][NextRace]_vars

\* C21: when run() ends, by returning or by re-raising the exception of a
\* finished awaitable, every awaitable that had not finished is cancelled,
\* and when it returns, the mapping holds the result of every awaitable that
\* had finished, under its name, and nothing else.
C21_LosersCancelledWinnersKept ==
    [][RaceWake =>
         /\ \A name \in RaceNames :
               race.tasks[name].status = "pending" => race'.tasks[name].status = "cancelled"
         /\ race'.pc = "returned" =>
               race'.result = {<<name, race.tasks[name].value>> : name \in done(race)}]_vars

\* run() returned two results and cancelled the third awaitable
C21_TwoWinners ==
    /\ race.pc = "returned"
    /\ Cardinality(race.result) = 2
    /\ \E name \in RaceNames : race.tasks[name].status = "cancelled"

\* run() ended by an exception and an awaitable it left alone finished later
C21_LoserFinishedAfterRun ==
    /\ race.pc = "raised"
    /\ race.exc = "KeyError"
    /\ \E name \in RaceNames : race.tasks[name].status = "result"

-----------------------------------------------------------------------------
(* SpecTrust: the TrustManager of side A on its own.  Any coroutine may    *)
(* call is_trusted, wait_to_trust and trust_remote for any SKI at any time;*)
(* the listener task of a SKI grants trust or ends without granting.       *)

NotTrust == UNCHANGED <<now, csh, cshp, cmi, pin, data, driver, inbox, sent, budget,
                        timers, race>>

TMIsTrusted(ski) ==
    /\ trust' = [trust EXCEPT !["A"] = _get_trust_event(@, ski)]
    /\ UNCHANGED callers
    /\ NotTrust

\* wait_to_trust up to Event.wait(), which returns at once when the event is set
TMWaitToTrust(ski) ==
    /\ callers[ski] = "none"
    /\ trust' = [trust EXCEPT !["A"] = _get_trust_event(@, ski)]
    /\ callers' = [callers EXCEPT ![ski] =
                      IF wait_to_trust_done(trust["A"], ski) THEN "returned" ELSE "suspended"]
    /\ NotTrust

\* the waiter of a set event is woken
TMWaitReturns(ski) ==
    /\ callers[ski] = "suspended"
    /\ trust["A"][ski].event = "set"
    /\ callers' = [callers EXCEPT ![ski] = "returned"]
    /\ UNCHANGED trust
    /\ NotTrust

TMTrustRemote(ski) ==
    /\ trust' = [trust EXCEPT !["A"] = trust_remote(@, ski)]
    /\ UNCHANGED callers
    /\ NotTrust

\* the listener task awaits the grant it was given
TMListenerGrants(ski) ==
    /\ trust["A"][ski].task
    /\ trust' = [trust EXCEPT !["A"] = trust_remote(@, ski)]
    /\ UNCHANGED callers
    /\ NotTrust

\* the listener task ends, having granted or not
TMListenerEnds(ski) ==
    /\ trust["A"][ski].task
    /\ trust' = [trust EXCEPT !["A"] = _trust_task_done(@, ski)]
    /\ UNCHANGED callers
    /\ NotTrust

InitTrust ==
    /\ Quiet
    /\ trust = [s \in Sides |-> TrustManager]
    /\ driver = [s \in Sides |-> NoDriver]
    /\ budget = 0

NextTrust ==
    \E ski \in SKIs :
        \/ TMIsTrusted(ski)
        \/ TMWaitToTrust(ski)
        \/ TMWaitReturns(ski)
        \/ TMTrustRemote(ski)
        \/ TMListenerGrants(ski)
        \/ TMListenerEnds(ski)

SpecTrust == InitTrust /\ [][NextTrust]_vars

\* a waiter that can return does return
SpecTrustFair == SpecTrust /\ \A ski \in SKIs : WF_vars(TMWaitReturns(ski))

\* a call of this step mentions ski
Mentions(ski) == TMIsTrusted(ski) \/ TMWaitToTrust(ski) \/ TMTrustRemote(ski)

\* C22: for every SKI the trust listener is invoked exactly once, at the
\* first call that mentions the SKI (never before, never again), and at
\* most one listener task per SKI is pending.
C22_ListenerAskedOnce ==
    /\ [](\A ski \in SKIs :
            /\ trust["A"][ski].calls = (IF trust["A"][ski].event = "absent" THEN 0 ELSE 1)
            /\ trust["A"][ski].task => trust["A"][ski].calls = 1)
    /\ [][\A ski \in SKIs :
            /\ (Mentions(ski) /\ trust["A"][ski].event = "absent") =>
                  /\ trust'["A"][ski].calls = 1
                  /\ trust'["A"][ski].task
            /\ trust'["A"][ski].calls # trust["A"][ski].calls =>
                  (Mentions(ski) /\ trust["A"][ski].event = "absent")]_vars

\* the listener of a SKI has ended without a grant and the SKI was asked
\* about again
C22_AskedAfterListenerEnded ==
    /\ trust["A"]["remote"] = [event |-> "clear", task |-> FALSE, calls |-> 1]
    /\ callers["remote"] = "suspended"
    /\ trust["A"]["other"].task

Trusted(ski) == is_trusted(trust["A"], ski)
TrustedAfter(ski) == is_trusted(trust'["A"], ski)

\* C23: trust latches per SKI.  is_trusted(ski) turns true only by a
\* trust_remote(ski) and stays true; a second trust_remote(ski) changes
\* nothing; a wait_to_trust(ski) has returned only if the SKI is trusted,
\* and a suspended one returns once the SKI is trusted; trusting one SKI
\* leaves is_trusted of the other as it was.
C23_TrustLatchesPerSki ==
    /\ [][\A ski \in SKIs :
            /\ Trusted(ski) => TrustedAfter(ski)
            /\ (~Trusted(ski) /\ TrustedAfter(ski)) =>
                  (TMTrustRemote(ski) \/ TMListenerGrants(ski))
            /\ (TMTrustRemote(ski) \/ TMListenerGrants(ski)) =>
                  /\ TrustedAfter(ski)
                  /\ Trusted(ski) => trust' = trust
                  /\ \A other \in SKIs \ {ski} : TrustedAfter(other) = Trusted(other)]_vars
    /\ [](\A ski \in SKIs : callers[ski] = "returned" => Trusted(ski))
    /\ \A ski \in SKIs :
          (callers[ski] = "suspended" /\ Trusted(ski)) ~> (callers[ski] = "returned")

\* a wait_to_trust has returned for one SKI while the waiter of the other
\* SKI, known and not trusted, is suspended
C23_WaiterWoken ==
    /\ callers["remote"] = "returned"
    /\ trust["A"]["other"].event = "clear"
    /\ callers["other"] = "suspended"

-----------------------------------------------------------------------------
(* SpecReject: one CSH, CSHP or PIN layer against an arbitrary peer that   *)
(* also sends frames of every kind the layers must reject.                 *)

\* empty, another tag, not JSON, JSON of the wrong shape (a list, a number),
\* an unknown top-level key, an item with two keys, an unknown item key, an
\* unknown enum value, a required field missing
RejectedHellos ==
    {EmptyFrame,
     Frame(2, CSHMessage_to_json(CSHMessage("ready", NoneT, "None"))),
     Frame(1, NotJson),
     Frame(1, JsonList),
     Frame(1, JsonNumber),
     Frame(1, Json("connectionGoodbye", <<Item("phase", JStr("ready"))>>)),
     Frame(1, Json("connectionHello",
                   <<<<Pair("phase", JStr("ready")), Pair("waiting", JInt(1000))>>>>)),
     Frame(1, Json("connectionHello",
                   <<Item("phase", JStr("ready")), Item("mood", JStr("fine"))>>)),
     Frame(1, Json("connectionHello", <<Item("phase", JStr("done"))>>)),
     Frame(1, Json("connectionHello", <<Item("waiting", JInt(1000))>>))}

RejectedHandshakes ==
    {EmptyFrame,
     Frame(2, CSHPMessage_to_json(CSHPProtocolHandshakeErrorMessage(1))),
     Frame(1, NotJson),
     Frame(1, JsonList),
     Frame(1, JsonNumber),
     Frame(1, Json("connectionGoodbye", <<Item("error", JInt(1))>>)),
     Frame(1, Json("messageProtocolHandshake",
                   <<<<Pair("handshakeType", JStr("SELECT")),
                       Pair("version", JVersion(1, 0))>>>>)),
     Frame(1, Json("messageProtocolHandshake",
                   <<Item("handshakeType", JStr("SELECT")), Item("mood", JStr("fine"))>>)),
     Frame(1, Json("messageProtocolHandshake",
                   <<Item("handshakeType", JStr("maybe")), Item("version", JVersion(1, 0)),
                     Item("formats", JFormats(<<"JSON-UTF8">>))>>)),
     Frame(1, Json("messageProtocolHandshake",
                   <<Item("handshakeType", JStr("SELECT")), Item("version", JVersion(1, 0)),
                     Item("formats", JFormats(<<"XML">>))>>)),
     Frame(1, Json("messageProtocolHandshake", <<Item("handshakeType", JStr("SELECT"))>>)),
     Frame(1, Json("messageProtocolHandshakeError", <<>>))}

RejectedPinStates ==
    {EmptyFrame,
     Frame(2, PinStateMessage_to_json(PinStateMessage("none", "None"))),
     Frame(1, NotJson),
     Frame(1, JsonList),
     Frame(1, JsonNumber),
     Frame(1, Json("connectionGoodbye", <<Item("pinState", JStr("none"))>>)),
     Frame(1, Json("connectionPinState",
                   <<<<Pair("pinState", JStr("none")), Pair("inputPermission", JStr("ok"))>>>>)),
     Frame(1, Json("connectionPinState",
                   <<Item("pinState", JStr("none")), Item("mood", JStr("fine"))>>)),
     Frame(1, Json("connectionPinState", <<Item("pinState", JStr("maybe"))>>)),
     Frame(1, Json("connectionPinState", <<Item("inputPermission", JStr("ok"))>>))}

RejectPeerSend(s) ==
    \/ /\ driver[s].pc = "CSH"
       /\ csh[s].pc = "running"
       /\ PeerSend(s, HelloInputs \cup RejectedHellos)
    \/ /\ driver[s].pc = "CSHP"
       /\ cshp[s].pc = "running"
       /\ PeerSend(s, HandshakeInputs \cup HandshakeErrorInputs \cup RejectedHandshakes)
    \/ /\ driver[s].pc = "PIN"
       /\ pin[s] \in {"none", "waiting"}
       /\ PeerSend(s, PinStateInputs \cup RejectedPinStates)

InitReject ==
    /\ Quiet
    /\ \E tm \in TrustManagerStates : trust = [s \in Sides |-> tm]
    /\ \E layer \in {"CSH", "CSHP", "PIN"}, role \in {"client", "server"} :
         driver = [s \in Sides |->
                     IF s = "A" THEN [NoDriver EXCEPT !.pc = layer, !.role = role]
                     ELSE NoDriver]
    /\ budget = MaxPeerFrames

NextReject ==
    \/ CSHConstruct("A")
    \/ CSHRun("A")
    \/ CSHTimerFire("A")
    \/ TrustGrant("A")
    \/ CSHPConstruct("A")
    \/ CSHPRun("A")
    \/ CSHPTimerFire("A")
    \/ PinStart("A")
    \/ PinReceive("A")
    \/ RejectPeerSend("A")
    \/ Tick

SpecReject == InitReject /\ [][NextReject]_vars

\* side s receives, in this step, a frame of the set while its layer runs
Rejects(s, layer, frames) ==
    /\ driver[s].pc = layer
    /\ Receives(s)
    /\ Head(inbox[s]) \in frames

\* C24: in CSH, CSHP and PIN, receiving a frame that is empty, has another
\* tag than 1, is not JSON, is JSON of the wrong shape, has an unknown
\* top-level key, an item with two keys, an unknown item key, an unknown
\* enum value or lacks a required field ends the layer with Abort and leaves
\* the state of the layer, its timers, the previously received message and
\* other_side_trusts_us as they were.
C24_MalformedFrameAborts ==
    [][\A s \in Sides :
         /\ Rejects(s, "CSH", RejectedHellos) =>
               /\ csh'[s].pc = "Abort"
               /\ \A field \in {"current_state", "wait_for_ready_timer",
                                  "send_prolongation_timer",
                                  "prolongation_request_reply_timer",
                                  "other_side_trusts_us"} : csh'[s][field] = csh[s][field]
               /\ csh'[s].previously_received_message = csh[s].previously_received_message
         /\ Rejects(s, "CSHP", RejectedHandshakes) =>
               /\ cshp'[s].pc = "Abort"
               /\ cshp'[s].current_state = cshp[s].current_state
               /\ cshp'[s].wait_timer = cshp[s].wait_timer
               /\ cshp'[s].proposed_handshake = cshp[s].proposed_handshake
         /\ Rejects(s, "PIN", RejectedPinStates) => pin'[s] = "Abort"]_vars

-----------------------------------------------------------------------------
(* Claims on the CSH state machine (SpecCSH).                              *)

\* what receive_csh_message makes of the frame at the head of the inbox of s
HeardHello(s) == receive_csh_message(Head(inbox[s]))

\* C25: CSHLayer.run returns normally only in HELLO_OK, with the remote SKI
\* trusted by the local trust manager at that moment and with a Hello of
\* phase ready received during the run: other_side_trusts_us is false at
\* construction and becomes true only in a step that receives such a Hello.
C25_ReturnNeedsBothTrusts ==
    /\ [](csh["A"].pc = "returned" =>
            /\ csh["A"].current_state = "HELLO_OK"
            /\ is_trusted(trust["A"], "remote")
            /\ csh["A"].other_side_trusts_us)
    /\ [][/\ CSHConstruct("A") => ~csh'["A"].other_side_trusts_us
          /\ (~csh["A"].other_side_trusts_us /\ csh'["A"].other_side_trusts_us) =>
                /\ Receives("A")
                /\ HeardHello("A").exc = "none"
                /\ HeardHello("A").msg.phase = "ready"]_vars

\* run() returned after a race that the trust grant won
C25_ReturnedOnTrust ==
    /\ csh["A"].pc = "returned"
    /\ "receive_trust" \in csh["A"].result

ReadyFamily == {"READY_LISTEN", "READY_TIMEOUT", "HELLO_OK"}

Armed(t) == t.status \in {"running", "completed"}

\* C26: while the peer has sent well-formed Hellos only, the state is never
\* READY_LISTEN, READY_TIMEOUT or HELLO_OK with send_prolongation or
\* prolongation_reply armed or completed, and run() never ends with the
\* fatal "State should not be ready" error.
C26_NoProlongationTimerWhileReady ==
    OnlyHellosHeard("A") =>
        /\ (csh["A"].pc = "running" /\ csh["A"].current_state \in ReadyFamily) =>
              /\ ~Armed(csh["A"].send_prolongation_timer)
              /\ ~Armed(csh["A"].prolongation_request_reply_timer)
        /\ csh["A"].pc # "RuntimeError:State should not be ready"

\* C27: whenever an iteration of the loop starts in PENDING_TIMEOUT, one of
\* the three timers has completed and the iteration before did not start in
\* PENDING_TIMEOUT; the iteration aborts or sets the state to PENDING_LISTEN.
C27_PendingTimeoutIsLeft ==
    /\ []((csh["A"].pc = "running" /\ csh["A"].current_state = "PENDING_TIMEOUT") =>
            /\ \E name \in CSHTimerNames : has_completed(csh["A"][name])
            /\ csh["A"].previous_state # "PENDING_TIMEOUT")
    /\ [][(CSHRun("A") /\ csh["A"].current_state = "PENDING_TIMEOUT") =>
            (csh'["A"].abort \/ csh'["A"].current_state = "PENDING_LISTEN")]_vars

\* the duration the claim gives prolongation_reply
ReplyDuration(L) ==
    IF L.previously_received_message # NoMessage
       /\ L.previously_received_message.waiting # NoneT
    THEN L.previously_received_message.waiting
    ELSE (11 * (L.wait_for_ready_timer.at - now)) \div 10

\* C28: a PENDING_TIMEOUT iteration that finds send_prolongation completed
\* and wait_for_ready not completed sends exactly Hello{pending,
\* prolongationRequest: true} with no waiting, starts prolongation_reply
\* with the waiting of the last received message if that has one and else
\* with 1.1 times the time left on wait_for_ready, puts a fresh timer in
\* the place of send_prolongation and sets the state to PENDING_LISTEN.
C28_ProlongationRequestStep ==
    [][(/\ CSHRun("A")
        /\ csh["A"].current_state = "PENDING_TIMEOUT"
        /\ has_completed(csh["A"].send_prolongation_timer)
        /\ ~has_completed(csh["A"].wait_for_ready_timer)) =>
            /\ sent'["A"] = Append(sent["A"],
                                   send_csh_message(CSHMessage("pending", NoneT, "True")))
            /\ csh'["A"].prolongation_request_reply_timer =
                   [status |-> "running", at |-> now + ReplyDuration(csh["A"])]
            /\ csh'["A"].send_prolongation_timer = AsyncTimer
            /\ csh'["A"].current_state = "PENDING_LISTEN"
            /\ csh'["A"].pc = "running"]_vars

\* the frame is a well-formed Hello with phase ready
IsReadyHello(frame) ==
    /\ receive_csh_message(frame).exc = "none"
    /\ receive_csh_message(frame).msg.phase = "ready"

\* this step is an iteration of run() in PENDING_LISTEN whose race returned
\* receive_trust, no timer, and no frame that fails to parse
GrantDispatched ==
    /\ CSHRun("A")
    /\ csh["A"].current_state = "PENDING_LISTEN"
    /\ "receive_trust" \in csh'["A"].result
    /\ csh'["A"].result \cap CSHTimerNames = {}
    /\ "csh_message" \in csh'["A"].result => HeardHello("A").exc = "none"

\* decide_next_input of that step, applied to the layer as it was
Dispatched ==
    decide_next_input(Ctx(csh["A"]), csh'["A"].result,
                      IF "csh_message" \in csh'["A"].result THEN HeardHello("A")
                      ELSE NothingParsed)

\* C29: when decide_next_input dispatches the trust grant in PENDING_LISTEN
\* (no timer in the same race), send_prolongation and prolongation_reply
\* are cancelled, the state becomes HELLO_OK if a ready Hello was received
\* before this race and READY_LISTEN otherwise, exactly one Hello, with
\* phase ready, is sent, and wait_for_ready is as it was.  When the race
\* returned the grant alone, this is the effect of the whole iteration, up
\* to the cancelling of wait_for_ready by run() on leaving the loop.
C29_GrantDispatch ==
    [][GrantDispatched =>
         /\ Dispatched.exc = "none"
         /\ Dispatched.L.send_prolongation_timer.status \in {"new", "cancelled"}
         /\ Dispatched.L.prolongation_request_reply_timer.status \in {"new", "cancelled"}
         /\ Dispatched.L.current_state =
                (IF csh["A"].other_side_trusts_us THEN "HELLO_OK" ELSE "READY_LISTEN")
         /\ Len(Dispatched.out) = 1
         /\ IsReadyHello(Dispatched.out[1])
         /\ Dispatched.L.wait_for_ready_timer = csh["A"].wait_for_ready_timer
         /\ csh'["A"].result = {"receive_trust"} =>
               /\ sent'["A"] = sent["A"] \o Dispatched.out
               /\ csh'["A"].current_state = Dispatched.L.current_state
               /\ csh'["A"].send_prolongation_timer = Dispatched.L.send_prolongation_timer
               /\ csh'["A"].prolongation_request_reply_timer =
                      Dispatched.L.prolongation_request_reply_timer
               /\ csh'["A"].current_state = "READY_LISTEN" =>
                      csh'["A"].wait_for_ready_timer = csh["A"].wait_for_ready_timer
               /\ csh'["A"].current_state = "HELLO_OK" => csh'["A"].pc = "returned"]_vars

\* the grant, alone in its race, cancelled a running send_prolongation timer
C29_GrantCancelledTimer ==
    /\ csh["A"].pc = "running"
    /\ csh["A"].result = {"receive_trust"}
    /\ csh["A"].current_state = "READY_LISTEN"
    /\ csh["A"].send_prolongation_timer.status = "cancelled"

\* the grant, alone in its race, ended the run in HELLO_OK
C29_GrantToHelloOk ==
    /\ csh["A"].pc = "returned"
    /\ csh["A"].result = {"receive_trust"}
    /\ csh["A"].other_side_trusts_us

\* SpecGranted: the CSH layer against a peer that sends a few well-formed
\* Hellos; run() does its next iteration whenever it can.
GrantHelloInputs ==
    {send_csh_message(CSHMessage("pending", 30000, "None")),
     send_csh_message(CSHMessage("ready", 30000, "None"))}

GrantPeerSend(s) ==
    /\ driver[s].pc = "CSH"
    /\ csh[s].pc = "running"
    /\ PeerSend(s, GrantHelloInputs)

NextGranted ==
    \/ CSHConstruct("A")
    \/ CSHRun("A")
    \/ CSHTimerFire("A")
    \/ TrustGrant("A")
    \/ GrantPeerSend("A")
    \/ Tick

SpecGranted == InitCSH /\ [][NextGranted]_vars /\ WF_vars(CSHRun("A"))

\* C30: once the remote SKI is trusted while the layer is pending, the run
\* ends or the layer comes to READY_LISTEN or HELLO_OK having sent a Hello
\* with phase ready.
C30_GrantLeadsToReady ==
    (/\ csh["A"].pc = "running"
     /\ is_pending(csh["A"].current_state)
     /\ trust["A"]["remote"].event = "set")
    ~> (\/ csh["A"].pc \notin {"running", "returned"}
        \/ /\ csh["A"].current_state \in {"READY_LISTEN", "HELLO_OK"}
           /\ \E i \in 1..Len(sent["A"]) : IsReadyHello(sent["A"][i]))

\* the same with the spinning PENDING_TIMEOUT loop of run() as a third
\* outcome: the grant is lost in no other way
C30_GrantLeadsToReadyOrSpins ==
    (/\ csh["A"].pc = "running"
     /\ is_pending(csh["A"].current_state)
     /\ trust["A"]["remote"].event = "set")
    ~> (\/ csh["A"].pc \notin {"running", "returned"}
        \/ CSHSpinning("A")
        \/ /\ csh["A"].current_state \in {"READY_LISTEN", "HELLO_OK"}
           /\ \E i \in 1..Len(sent["A"]) : IsReadyHello(sent["A"][i]))

-----------------------------------------------------------------------------
(* Claims on the handling of a received Hello (SpecCSH).                   *)

\* this step is an iteration of run() in state st whose race returned the
\* received frame alone, and the frame is a well-formed Hello
HelloHandled(st) ==
    /\ CSHRun("A")
    /\ csh["A"].current_state = st
    /\ csh'["A"].result = {"csh_message"}
    /\ HeardHello("A").exc = "none"

HasWaiting(msg) == msg.waiting # NoneT

HasProlongationRequest(msg) == msg.prolongation_request # "None"

\* the three fates the claim gives a Hello received in PENDING_LISTEN
AcceptedFields(msg) ==
    \/ msg.phase = "ready" /\ HasWaiting(msg)
    \/ msg.phase = "pending" /\ HasWaiting(msg) /\ ~HasProlongationRequest(msg)

GrantedFields(msg) ==
    msg.phase = "pending" /\ ~HasWaiting(msg) /\ msg.prolongation_request = "True"

\* C31: a Hello received in PENDING_LISTEN is accepted when it is ready
\* with a waiting field, or pending with a waiting field and no
\* prolongationRequest field, whatever the waiting value (0 included):
\* prolongation_reply is then not armed and the run goes on; pending with
\* no waiting and prolongationRequest true is granted (the run goes on and
\* a Hello is sent) while wait_for_ready has time left; every other Hello,
\* ready without waiting and aborted among them, ends the run with Abort.
C31_FateFollowsPresence ==
    [][HelloHandled("PENDING_LISTEN") =>
         LET msg == HeardHello("A").msg
         IN  /\ AcceptedFields(msg) =>
                   /\ csh'["A"].pc = "running"
                   /\ ~csh'["A"].abort
                   /\ ~Armed(csh'["A"].prolongation_request_reply_timer)
             /\ (GrantedFields(msg) /\ time_left(csh["A"].wait_for_ready_timer) > 0) =>
                   /\ csh'["A"].pc = "running"
                   /\ Len(sent'["A"]) = Len(sent["A"]) + 1
             /\ (~AcceptedFields(msg) /\ ~GrantedFields(msg)) =>
                   csh'["A"].pc = "Abort"]_vars

\* this step is an iteration of run() in PENDING_LISTEN that received a
\* well-formed Hello and took the branch "prolongation request was accepted"
HelloAccepted ==
    /\ CSHRun("A")
    /\ csh["A"].current_state = "PENDING_LISTEN"
    /\ "csh_message" \in csh'["A"].result
    /\ HeardHello("A").exc = "none"
    /\ AcceptedFields(HeardHello("A").msg)
    /\ HeardHello("A").msg.waiting > 0

\* the state of a timer that run() left as t, once the step is over: run()
\* cancels the three timers when it leaves the loop in the same step
AfterStep(t) == IF csh'["A"].pc = "running" THEN t ELSE cancel(t)

\* C32: after a ready+waiting or pending+waiting Hello is accepted in
\* PENDING_LISTEN, send_prolongation is a fresh timer armed for waiting
\* minus 15 s if waiting is at least 30 s, and is neither running nor
\* completed if waiting is below 30 s; wait_for_ready is cancelled if the
\* Hello had phase ready and is left as it was if it had phase pending; and
\* the layer never drops a send_prolongation timer that is still armed.
C32_SendProlongationAfterAccept ==
    /\ [](~csh["A"].orphan)
    /\ [][HelloAccepted =>
            LET msg == HeardHello("A").msg
            IN  /\ msg.waiting >= CSH_TIMEOUT_T_HELLO_PROLONG_THR_INC =>
                      /\ msg.waiting - CSH_TIMEOUT_T_HELLO_PROLONG_WAITTING_GAP
                             >= CSH_TIMEOUT_T_HELLO_PROLONG_MIN
                      /\ csh'["A"].send_prolongation_timer =
                             AfterStep(start(AsyncTimer,
                                 msg.waiting - CSH_TIMEOUT_T_HELLO_PROLONG_WAITTING_GAP))
                /\ msg.waiting < CSH_TIMEOUT_T_HELLO_PROLONG_THR_INC =>
                      ~Armed(csh'["A"].send_prolongation_timer)
                /\ msg.phase = "ready" =>
                      csh'["A"].wait_for_ready_timer.status = "cancelled"
                /\ msg.phase = "pending" =>
                      csh'["A"].wait_for_ready_timer =
                          AfterStep(csh["A"].wait_for_ready_timer)]_vars

\* the same for a Hello that was alone in its race: no timer had completed
\* and no trust grant was dispatched when the Hello was read
C32_SendProlongationAfterAcceptAlone ==
    [][(HelloAccepted /\ csh'["A"].result = {"csh_message"}) =>
          LET msg == HeardHello("A").msg
          IN  /\ msg.waiting >= CSH_TIMEOUT_T_HELLO_PROLONG_THR_INC =>
                    csh'["A"].send_prolongation_timer =
                        start(AsyncTimer,
                              msg.waiting - CSH_TIMEOUT_T_HELLO_PROLONG_WAITTING_GAP)
              /\ msg.waiting < CSH_TIMEOUT_T_HELLO_PROLONG_THR_INC =>
                    ~Armed(csh'["A"].send_prolongation_timer)
              /\ msg.phase = "ready" =>
                    csh'["A"].wait_for_ready_timer.status = "cancelled"
              /\ msg.phase = "pending" =>
                    csh'["A"].wait_for_ready_timer = csh["A"].wait_for_ready_timer]_vars

-----------------------------------------------------------------------------
(* Claims on the Hellos the layer sends (SpecCSH).                         *)

\* the number of frames this step sent through send_sme_hello_update_message:
\* a PENDING_TIMEOUT iteration sends none (its frame is the prolongation
\* request), and the Hello{aborted} of an aborting step is sent by run()
UpdatesSent ==
    IF ~CSHRun("A") \/ csh["A"].current_state = "PENDING_TIMEOUT" THEN 0
    ELSE (Len(sent'["A"]) - Len(sent["A"])) - (IF csh'["A"].pc = "Abort" THEN 1 ELSE 0)

\* the i-th of them, as the peer parses it
UpdateSent(i) == receive_csh_message(sent'["A"][Len(sent["A"]) + i]).msg

\* C33: every Hello sent by send_sme_hello_update_message has phase ready
\* if the local state is READY_INIT, READY_LISTEN, READY_TIMEOUT or HELLO_OK
\* and phase pending otherwise; it never has a prolongationRequest field;
\* and if it has a waiting field, the value is positive and is the time
\* left on a wait_for_ready timer that is running (before or after the
\* step: the timer may be started or replaced by the step).
C33_UpdateHelloContents ==
    [][\A i \in 1..UpdatesSent :
          /\ UpdateSent(i).phase =
                 (IF is_ready(csh'["A"].current_state) THEN "ready" ELSE "pending")
          /\ ~HasProlongationRequest(UpdateSent(i))
          /\ HasWaiting(UpdateSent(i)) =>
                /\ UpdateSent(i).waiting > 0
                /\ \E t \in {csh["A"].wait_for_ready_timer,
                             csh'["A"].wait_for_ready_timer} :
                      /\ t.status = "running"
                      /\ time_left(t) = UpdateSent(i).waiting]_vars

-----------------------------------------------------------------------------
(* Claims on two CSH layers talking to each other (SpecTrusting).          *)

ReadyHello == send_csh_message(CSHMessage("ready", NoneT, "None"))

\* C34: when both sides are constructed trusting, each side sends exactly
\* one Hello, which is {phase: ready} with neither waiting nor
\* prolongationRequest, goes through READY_INIT, READY_LISTEN and HELLO_OK
\* only, enters HELLO_OK by reading the Hello of its peer in READY_LISTEN,
\* and in the end both sides have returned in HELLO_OK.
C34_BothStartReady ==
    (\A s \in Sides : csh[s].pc = "none" /\ is_trusted(trust[s], "remote")) =>
        /\ [](\A s \in Sides :
                /\ Len(sent[s]) <= 1
                /\ \A i \in 1..Len(sent[s]) : sent[s][i] = ReadyHello
                /\ csh[s].pc # "none" =>
                      csh[s].current_state \in {"READY_INIT", "READY_LISTEN", "HELLO_OK"}
                /\ (csh[s].pc # "none" /\ csh[s].current_state = "HELLO_OK") =>
                      /\ csh[s].state_at_start = "READY_LISTEN"
                      /\ csh[s].result = {"csh_message"}
                      /\ csh[s].message.phase = "ready")
        /\ <>(\A s \in Sides :
                /\ csh[s].pc = "returned"
                /\ csh[s].current_state = "HELLO_OK"
                /\ Len(sent[s]) = 1)

\* the Hello of a side whose wait_for_ready timer was just started
ReadyHelloWaiting == send_csh_message(CSHMessage("ready", CSH_TIMEOUT_T_HELLO_INIT, "None"))

\* C34, amended: when both sides are constructed trusting, each side sends
\* exactly one Hello, which is {phase: ready, waiting: 120000} (the time
\* left on the wait_for_ready timer it has just started) with no
\* prolongationRequest, goes through READY_INIT, READY_LISTEN and HELLO_OK
\* only, enters HELLO_OK by reading the Hello of its peer in READY_LISTEN,
\* and in the end both sides have returned in HELLO_OK.
C34_BothStartReadyWithWaiting ==
    (\A s \in Sides : csh[s].pc = "none" /\ is_trusted(trust[s], "remote")) =>
        /\ [](\A s \in Sides :
                /\ Len(sent[s]) <= 1
                /\ \A i \in 1..Len(sent[s]) : sent[s][i] = ReadyHelloWaiting
                /\ csh[s].pc # "none" =>
                      csh[s].current_state \in {"READY_INIT", "READY_LISTEN", "HELLO_OK"}
                /\ (csh[s].pc # "none" /\ csh[s].current_state = "HELLO_OK") =>
                      /\ csh[s].state_at_start = "READY_LISTEN"
                      /\ csh[s].result = {"csh_message"}
                      /\ csh[s].message.phase = "ready")
        /\ <>(\A s \in Sides :
                /\ csh[s].pc = "returned"
                /\ csh[s].current_state = "HELLO_OK"
                /\ Len(sent[s]) = 1)

\* both sides returned having sent their one ready Hello and nothing else
C34_BothReturnedOnOneHello ==
    \A s \in Sides :
        /\ csh[s].pc = "returned"
        /\ sent[s] = <<ReadyHelloWaiting>>
        /\ csh[s].message = CSHMessage("ready", CSH_TIMEOUT_T_HELLO_INIT, "None")

-----------------------------------------------------------------------------
(* Claims on prolongation (SpecCSH).                                       *)

\* this step is an iteration of run() in READY_LISTEN in which
\* decide_next_input returned a well-formed Hello
HelloReadInReadyListen ==
    /\ CSHRun("A")
    /\ csh["A"].current_state = "READY_LISTEN"
    /\ "csh_message" \in csh'["A"].result
    /\ csh'["A"].result \subseteq {"csh_message", "wait_for_ready_timer"}
    /\ HeardHello("A").exc = "none"

\* wait_for_ready after a granted prolongation: a fresh timer for the time
\* that was left plus T_HELLO_INC
Prolonged(t) == [status |-> "running", at |-> t.at + CSH_TIMEOUT_T_HELLO_INC]

\* C35: a Hello read in READY_LISTEN is handled by its phase.  ready: the
\* state becomes HELLO_OK and run() returns.  pending with
\* prolongationRequest true: the prolongation is granted (wait_for_ready
\* is replaced by the prolonged timer), one Hello is sent and the state
\* stays READY_LISTEN.  pending without a true prolongationRequest: no
\* frame is sent, no timer changes and the state is left where the race
\* put it.  aborted: run() ends with Abort.
C35_ReadyListenHandlesHello ==
    [][HelloReadInReadyListen =>
         LET msg == HeardHello("A").msg
             L == csh["A"]
         IN  /\ msg.phase = "ready" =>
                   /\ csh'["A"].current_state = "HELLO_OK"
                   /\ csh'["A"].pc = "returned"
             /\ (msg.phase = "pending" /\ msg.prolongation_request = "True") =>
                   /\ csh'["A"].pc = "running"
                   /\ csh'["A"].wait_for_ready_timer = Prolonged(L.wait_for_ready_timer)
                   /\ Len(sent'["A"]) = Len(sent["A"]) + 1
                   /\ csh'["A"].current_state = "READY_LISTEN"
             /\ (msg.phase = "pending" /\ msg.prolongation_request # "True") =>
                   /\ csh'["A"].pc = "running"
                   /\ sent'["A"] = sent["A"]
                   /\ \A name \in CSHTimerNames : csh'["A"][name] = L[name]
                   /\ csh'["A"].current_state =
                          (IF "wait_for_ready_timer" \in csh'["A"].result
                           THEN "READY_TIMEOUT" ELSE "READY_LISTEN")
             /\ msg.phase = "aborted" => csh'["A"].pc = "Abort"]_vars

\* the same for a Hello that is alone in its race and read while
\* wait_for_ready has time left
C35_ReadyListenHandlesHelloInTime ==
    [][(/\ HelloReadInReadyListen
        /\ csh'["A"].result = {"csh_message"}
        /\ time_left(csh["A"].wait_for_ready_timer) > 0) =>
         LET msg == HeardHello("A").msg
             L == csh["A"]
         IN  /\ msg.phase = "ready" =>
                   /\ csh'["A"].current_state = "HELLO_OK"
                   /\ csh'["A"].pc = "returned"
             /\ (msg.phase = "pending" /\ msg.prolongation_request = "True") =>
                   /\ csh'["A"].pc = "running"
                   /\ csh'["A"].wait_for_ready_timer = Prolonged(L.wait_for_ready_timer)
                   /\ sent'["A"] = Append(sent["A"],
                          send_csh_message(CSHMessage("ready",
                              time_left(Prolonged(L.wait_for_ready_timer)), "None")))
                   /\ csh'["A"].current_state = "READY_LISTEN"
             /\ (msg.phase = "pending" /\ msg.prolongation_request # "True") =>
                   /\ csh'["A"].pc = "running"
                   /\ sent'["A"] = sent["A"]
                   /\ \A name \in CSHTimerNames : csh'["A"][name] = L[name]
                   /\ csh'["A"].current_state = "READY_LISTEN"
             /\ msg.phase = "aborted" => csh'["A"].pc = "Abort"]_vars

-----------------------------------------------------------------------------
(* SpecProlong: two CSH layers that both stay pending (no trust is         *)
(* granted), over the reliable FIFO transport, with time passing.          *)

InitProlong ==
    /\ Quiet
    /\ trust = [s \in Sides |-> TrustManager]
    /\ driver = [s \in Sides |-> [NoDriver EXCEPT !.pc = "CSH"]]
    /\ budget = 0

NextProlong ==
    \/ \E s \in Sides :
          \/ CSHConstruct(s)
          \/ CSHRun(s)
          \/ CSHTimerFire(s)
    \/ Tick

SpecProlong == InitProlong /\ [][NextProlong]_vars

\* the frame is a prolongation request as run() grants it in state st
IsRequest(msg, st) ==
    /\ msg.phase = "pending"
    /\ msg.prolongation_request = "True"
    /\ st = "PENDING_LISTEN" => ~HasWaiting(msg)

\* in this step side s reads a prolongation request and grants it
Grants(s) ==
    /\ CSHRun(s)
    /\ csh[s].current_state \in CSHListenStates
    /\ "csh_message" \in csh'[s].result
    /\ HeardHello(s).exc = "none"
    /\ IsRequest(HeardHello(s).msg, csh[s].current_state)
    /\ csh'[s].pc = "running"

\* the request was sent 105 s after the 120 s start of wait_for_ready, and
\* is granted at once
ScenarioGrant(s) ==
    /\ Grants(s)
    /\ csh[s].wait_for_ready_timer.at = CSH_TIMEOUT_T_HELLO_INIT
    /\ now = CSH_TIMEOUT_T_HELLO_INIT - CSH_TIMEOUT_T_HELLO_PROLONG_WAITTING_GAP

\* in this step side s, the requester, reads the Hello of that grant at once
ScenarioAnswer(s) ==
    /\ CSHRun(s)
    /\ csh[s].current_state = "PENDING_LISTEN"
    /\ csh'[s].result = {"csh_message"}
    /\ HeardHello(s).exc = "none"
    /\ HeardHello(s).msg.phase = "pending"
    /\ HasWaiting(HeardHello(s).msg)
    /\ csh[s].prolongation_request_reply_timer.status = "running"
    /\ csh[Peer(s)].wait_for_ready_timer.at
           = CSH_TIMEOUT_T_HELLO_INIT + CSH_TIMEOUT_T_HELLO_INC
    /\ now = CSH_TIMEOUT_T_HELLO_INIT - CSH_TIMEOUT_T_HELLO_PROLONG_WAITTING_GAP

\* the waiting field of the last frame side s has sent
WaitingSent(s) == receive_csh_message(sent'[s][Len(sent'[s])]).msg.waiting

\* what every grant does: wait_for_ready is replaced by a timer whose time
\* left is the old time left plus T_HELLO_INC, and the Hello sent right
\* after reports that time as waiting
GrantProlongs(s) ==
    /\ csh'[s].wait_for_ready_timer = Prolonged(csh[s].wait_for_ready_timer)
    /\ time_left(csh'[s].wait_for_ready_timer)
           = time_left(csh[s].wait_for_ready_timer) + CSH_TIMEOUT_T_HELLO_INC
    /\ Len(sent'[s]) = Len(sent[s]) + 1
    /\ WaitingSent(s) = time_left(csh'[s].wait_for_ready_timer)

\* C36: a grant prolongs wait_for_ready by T_HELLO_INC and reports the new
\* time left; when the request was sent 105 s after a 120 s start, the
\* granting side reports waiting 240 s and the requester then arms
\* send_prolongation for 225 s.
C36_GrantReports240 ==
    [][\A s \in Sides :
         /\ Grants(s) => GrantProlongs(s)
         /\ ScenarioGrant(s) => WaitingSent(s) = 240000
         /\ ScenarioAnswer(s) =>
               csh'[s].send_prolongation_timer = start(AsyncTimer, 225000)]_vars

\* C36, amended: a grant prolongs wait_for_ready by T_HELLO_INC and
\* reports the new time left; when the request was sent 105 s after a
\* 120 s start, 15 s were left, so the granting side reports waiting 135 s
\* (its deadline is now 240 s after the start) and the requester then arms
\* send_prolongation for 135 - 15 = 120 s (due 225 s after the start).
C36_GrantReports135 ==
    [][\A s \in Sides :
         /\ Grants(s) => GrantProlongs(s)
         /\ ScenarioGrant(s) =>
               /\ WaitingSent(s) = 135000
               /\ csh'[s].wait_for_ready_timer.at = 240000
         /\ ScenarioAnswer(s) =>
               /\ HeardHello(s).msg.waiting = 135000
               /\ csh'[s].send_prolongation_timer = start(AsyncTimer, 120000)
               /\ csh'[s].send_prolongation_timer.at = 225000]_vars

\* the scenario happened: a side granted at 105 s and reported 135 s, and
\* its peer armed send_prolongation on reading that
C36_ScenarioDone ==
    \E s \in Sides :
        /\ csh[s].wait_for_ready_timer = [status |-> "running", at |-> 240000]
        /\ sent[s] # <<>>
        /\ Last(sent[s]) = send_csh_message(CSHMessage("pending", 135000, "None"))
        /\ csh[Peer(s)].send_prolongation_timer = [status |-> "running", at |-> 225000]
        /\ csh[Peer(s)].message = CSHMessage("pending", 135000, "None")

-----------------------------------------------------------------------------
(* SpecRequests: one CSH layer against a peer that stays pending and only  *)
(* sends prolongation requests, for as long as the requests can postpone   *)
(* the end of wait_for_ready.                                              *)

MaxRequests == 3

\* the latest instant wait_for_ready can be due after MaxRequests grants
MaxRequestsTime == (MaxRequests + 1) * CSH_TIMEOUT_T_HELLO_INIT

ProlongationRequest == CSHMessage("pending", NoneT, "True")

RequestsPeerSend(s) ==
    /\ driver[s].pc = "CSH"
    /\ csh[s].pc = "running"
    /\ PeerSend(s, {send_csh_message(ProlongationRequest)})

\* time passes up to MaxRequestsTime
RequestsTick ==
    /\ now < MaxRequestsTime
    /\ \A s \in Sides : Suspended(s) \/ Idle(s)
    /\ \E s \in Sides : Suspended(s)
    /\ now' = SetMin({now + TickStep} \cup {d \in Deadlines : d > now})
    /\ UNCHANGED <<trust, csh, cshp, cmi, pin, data, driver, inbox, sent, budget, timers, race, callers>>

InitRequests ==
    /\ Quiet
    /\ \E tm \in TrustManagerStates : trust = [s \in Sides |-> tm]
    /\ driver = [s \in Sides |-> IF s = "A" THEN [NoDriver EXCEPT !.pc = "CSH"]
                                 ELSE NoDriver]
    /\ budget = MaxRequests

NextRequests ==
    \/ CSHConstruct("A")
    \/ CSHRun("A")
    \/ CSHTimerFire("A")
    \/ TrustGrant("A")
    \/ RequestsPeerSend("A")
    \/ RequestsTick

SpecRequests == InitRequests /\ [][NextRequests]_vars

\* in this step run() is handed a prolongation request by
\* decide_next_input while wait_for_ready has time left
RequestInTime ==
    /\ CSHRun("A")
    /\ csh["A"].current_state \in CSHListenStates
    /\ "csh_message" \in csh'["A"].result
    /\ HeardHello("A").exc = "none"
    /\ HeardHello("A").msg = ProlongationRequest
    /\ time_left(csh["A"].wait_for_ready_timer) > 0

\* the requests the layer has read so far
RequestsRead == (MaxRequests - budget) - Len(inbox["A"])

\* C37: every prolongation request handed to run() in READY_LISTEN or
\* PENDING_LISTEN while wait_for_ready has time left is granted, whatever
\* the number granted before: wait_for_ready is prolonged by T_HELLO_INC,
\* a Hello is sent and the run goes on.  So against a peer that only sends
\* requests, each request read postpones the expiry of wait_for_ready by
\* T_HELLO_INC, and the run does not end by that expiry before the time
\* all the requests read have earned it.
C37_EveryRequestInTimeGranted ==
    /\ [][RequestInTime =>
            /\ csh'["A"].pc = "running"
            /\ csh'["A"].wait_for_ready_timer = Prolonged(csh["A"].wait_for_ready_timer)
            /\ Len(sent'["A"]) > Len(sent["A"])]_vars
    /\ [](csh["A"].pc \in {"running", "Abort"} /\ has_started(csh["A"].wait_for_ready_timer) =>
            csh["A"].wait_for_ready_timer.at
                = CSH_TIMEOUT_T_HELLO_INIT + CSH_TIMEOUT_T_HELLO_INC * RequestsRead)
    /\ [](csh["A"].pc = "Abort" =>
            now >= CSH_TIMEOUT_T_HELLO_INIT + CSH_TIMEOUT_T_HELLO_INC * RequestsRead)

\* a third request in a row was granted
C37_ThirdGranted ==
    /\ csh["A"].pc = "running"
    /\ RequestsRead = 3
    /\ csh["A"].wait_for_ready_timer.status = "running"
    /\ csh["A"].wait_for_ready_timer.at
           = CSH_TIMEOUT_T_HELLO_INIT + 3 * CSH_TIMEOUT_T_HELLO_INC
    /\ csh["A"].message = ProlongationRequest

-----------------------------------------------------------------------------
(* Claims on the timeouts of the CSH layer (SpecCSH).                      *)

CSHTimeoutStates == {"READY_TIMEOUT", "PENDING_TIMEOUT"}

\* a ready Hello is in the race that returns in this step
ReadyHelloInRace ==
    /\ "csh_message" \in csh'["A"].result
    /\ HeardHello("A").exc = "none"
    /\ HeardHello("A").msg.phase = "ready"

\* the race of decide_next_input returns in this step with a timeout:
\* wait_for_ready in READY_LISTEN without a ready Hello, wait_for_ready in
\* PENDING_LISTEN, or prolongation_reply in PENDING_LISTEN without an
\* answer of the peer; a frame in the same race is a well-formed Hello
TimeoutRace ==
    /\ CSHRun("A")
    /\ csh["A"].current_state \in CSHListenStates
    /\ "csh_message" \in csh'["A"].result => HeardHello("A").exc = "none"
    /\ \/ /\ csh["A"].current_state = "READY_LISTEN"
          /\ "wait_for_ready_timer" \in csh'["A"].result
          /\ ~ReadyHelloInRace
       \/ /\ csh["A"].current_state = "PENDING_LISTEN"
          /\ "wait_for_ready_timer" \in csh'["A"].result
       \/ /\ csh["A"].current_state = "PENDING_LISTEN"
          /\ "prolongation_request_reply_timer" \in csh'["A"].result
          /\ "csh_message" \notin csh'["A"].result

\* the same with no frame of the peer in the race
TimeoutRaceAlone ==
    /\ TimeoutRace
    /\ "csh_message" \notin csh'["A"].result

\* the loop is about to start an iteration in the timeout state such a
\* race has put it in
TimedOut(L) ==
    /\ L.pc = "running"
    /\ L.current_state \in CSHTimeoutStates
    /\ \/ "wait_for_ready_timer" \in L.result
       \/ /\ "prolongation_request_reply_timer" \in L.result
          /\ "csh_message" \notin L.result

\* the run of side A has ended with Abort and Hello{aborted} is the last
\* frame it sent
AbortedWithHello(L, frames) ==
    /\ L.pc = "Abort"
    /\ frames # <<>>
    /\ frames[Len(frames)] = AbortedHello

\* C38: a CSH timeout always ends the run with Abort and a sent
\* Hello{aborted}.  The race that returns with the expired timer either
\* ends the run that way at once or leaves the loop in READY_TIMEOUT or
\* PENDING_TIMEOUT, and the iteration that starts there ends the run with
\* Abort after sending Hello{aborted}.
C38_TimeoutAborts ==
    /\ [][TimeoutRace =>
            \/ AbortedWithHello(csh'["A"], sent'["A"])
            \/ TimedOut(csh'["A"])]_vars
    /\ [][(CSHRun("A") /\ TimedOut(csh["A"])) =>
            /\ AbortedWithHello(csh'["A"], sent'["A"])
            /\ Len(sent'["A"]) = Len(sent["A"]) + 1]_vars

\* the same for a timer that is reported with no frame of the peer in the
\* same race
C38_TimeoutAloneAborts ==
    /\ [][TimeoutRaceAlone =>
            /\ TimedOut(csh'["A"])
            /\ sent'["A"] = sent["A"]]_vars
    /\ [][(CSHRun("A") /\ TimedOut(csh["A"])) =>
            /\ AbortedWithHello(csh'["A"], sent'["A"])
            /\ Len(sent'["A"]) = Len(sent["A"]) + 1]_vars

-----------------------------------------------------------------------------
(* Claims on the TrustManager a driver hands to its CSH layer (SpecDriver). *)

\* the manager was never asked about the SKI: no event, no listener task
NeverQueried(tm, ski) == tm[ski] = TrustManager[ski]

\* C39: a CSHLayer constructed over a TrustManager that was never queried
\* for the remote SKI starts in PENDING_INIT, and that construction is the
\* query that starts the listener.  The TrustManager a driver creates for
\* its connection is never queried before the layer is constructed, so the
\* driver never starts CSH in READY_INIT.
C39_FreshManagerStartsPending ==
    /\ [][(CSHConstruct("A") /\ NeverQueried(trust["A"], "remote")) =>
            /\ csh'["A"].pc = "running"
            /\ csh'["A"].current_state = "PENDING_INIT"
            /\ trust'["A"]["remote"] = [event |-> "clear", task |-> TRUE, calls |-> 1]]_vars
    /\ [](csh["A"].pc = "none" => NeverQueried(trust["A"], "remote"))
    /\ [](csh["A"].current_state # "READY_INIT")

\* the server driver has constructed its CSH layer, and the listener it
\* started then has granted trust since
C39_ServerGrantedAfterStart ==
    /\ driver["A"].role = "server"
    /\ driver["A"].pc = "CSH"
    /\ csh["A"].pc = "running"
    /\ csh["A"].current_state = "READY_LISTEN"
    /\ csh["A"].previous_state = "PENDING_LISTEN"
    /\ trust["A"]["remote"] = [event |-> "set", task |-> FALSE, calls |-> 1]

-----------------------------------------------------------------------------
(* SpecHello: a valid Hello is serialised by side A, carried as a frame    *)
(* and parsed by side B.                                                   *)

\* waiting of a valid Hello: absent, or a whole number of milliseconds
HelloWaitings ==
    {NoneT} \cup (-2 .. 2) \cup {999, 1000, 1001}
            \cup {CSH_TIMEOUT_T_HELLO_PROLONG_MIN, CSH_TIMEOUT_T_HELLO_PROLONG_THR_INC,
                  CSH_TIMEOUT_T_HELLO_INIT, 2 * CSH_TIMEOUT_T_HELLO_INIT}

ValidHellos ==
    {CSHMessage(phase, waiting, prolongation_request) :
        phase \in CSHPhases, waiting \in HelloWaitings,
        prolongation_request \in {"None", "True", "False"}}

InitHello ==
    /\ now = 0
    /\ timers = NoTimers
    /\ race = NoRace
    /\ callers = NoCallers
    /\ cshp = [s \in Sides |-> NoCSHPLayer]
    /\ cmi = [s \in Sides |-> NoCMILayer]
    /\ pin = [s \in Sides |-> "none"]
    /\ data = [s \in Sides |-> NoData]
    /\ inbox = [s \in Sides |-> <<>>]
    /\ sent = [s \in Sides |-> <<>>]
    /\ trust = [s \in Sides |-> TrustManager]
    /\ driver = [s \in Sides |-> NoDriver]
    /\ budget = 0
    /\ \E h \in ValidHellos :
         csh = [s \in Sides |-> IF s = "A" THEN [NoCSHLayer EXCEPT !.message = h]
                                ELSE NoCSHLayer]

\* send_csh_message(h): to_json, then the frame goes on the transport
HelloSerialise ==
    /\ sent["A"] = <<>>
    /\ sent' = [sent EXCEPT !["A"] = <<send_csh_message(csh["A"].message)>>]
    /\ UNCHANGED <<now, trust, csh, cshp, cmi, pin, data, driver, inbox, budget, timers, race, callers>>

\* the transport hands the frame to side B
HelloDeliver ==
    /\ sent["A"] # <<>>
    /\ inbox["B"] = <<>>
    /\ csh["B"].pc = "none"
    /\ inbox' = [inbox EXCEPT !["B"] = sent["A"]]
    /\ UNCHANGED <<now, trust, csh, cshp, cmi, pin, data, driver, sent, budget, timers, race, callers>>

\* receive_csh_message on side B: from_json of the frame's body
HelloParse ==
    /\ inbox["B"] # <<>>
    /\ LET parsed == receive_csh_message(Head(inbox["B"]))
       IN  csh' = [csh EXCEPT !["B"].pc = IF parsed.exc = "none" THEN "returned"
                                          ELSE parsed.exc,
                              !["B"].message = parsed.msg]
    /\ inbox' = [inbox EXCEPT !["B"] = Tail(@)]
    /\ UNCHANGED <<now, trust, cshp, cmi, pin, data, driver, sent, budget, timers, race, callers>>

NextHello == HelloSerialise \/ HelloDeliver \/ HelloParse

SpecHello == InitHello /\ [][NextHello]_vars

\* the keys of the items of a Hello's JSON
HelloKeys(body) == {body.items[i][1].k : i \in 1 .. Len(body.items)}

=============================================================================
